---- MODULE Spec2Model ----
(***************************************************************************)
(* hamilton-composer: HamiltonComposer.load_config                         *)
(*   _resolve_config_path   (composer.py 207-246)                          *)
(*   _load_config_from_path (composer.py 248-306)                          *)
(*   get_git_root           (utils.py 18-34)                               *)
(*                                                                         *)
(* A path is a sequence of segments.  An absolute canonical path is the    *)
(* sequence of directory names from the filesystem root, the root itself   *)
(* being << >>.  A location as the caller writes it may hold "." and ".."  *)
(* segments; pathlib.Path() drops the "." segments, Path.resolve()         *)
(* collapses the ".." segments.                                            *)
(***************************************************************************)
EXTENDS Integers, Sequences, FiniteSets, TLC

\* ---------------------------------------------------------------- bounds
\* depth of the directory chain  /d1/d2/...  the working directory lives on
MaxDepth == 2

\* ------------------------------------------------------------ filesystem
ChainNames == <<"d1", "d2", "d3", "d4", "d5">>

Chain == SubSeq(ChainNames, 1, MaxDepth)

\* the directories of the model: the root and every directory of the chain
Dirs == { SubSeq(Chain, 1, k) : k \in 0..MaxDepth }

ConfName == "conf"

\* the places a configuration source may exist at: <dir>/conf
Targets == { d \o <<ConfName>> : d \in Dirs }

\* pathlib: Path.parent (the root is its own parent)
Parent(p) == IF p = << >> THEN << >> ELSE SubSeq(p, 1, Len(p) - 1)

\* ---------------------------------------------------------- option values
None == [some |-> FALSE, abs |-> FALSE, segs |-> << >>]

Some(a, s) == [some |-> TRUE, abs |-> a, segs |-> s]

\* the location strings a caller may pass (str or Path)
RelLocations == { Some(FALSE, <<ConfName>>),
                  Some(FALSE, <<".", ConfName>>),
                  Some(FALSE, <<"..", ConfName>>) }

AbsLocations == { Some(TRUE, d \o <<ConfName>>) : d \in Dirs }
                \cup { Some(TRUE, d \o <<"..", d[Len(d)], ConfName>>) : d \in Dirs \ {<< >>} }

Locations == {None} \cup RelLocations \cup AbsLocations

\* --------------------------------------------------------------- pathlib
\* Path(initial_path): parsing drops "." segments, keeps ".." segments
PathOf(loc) == [loc EXCEPT !.segs = SelectSeq(loc.segs, LAMBDA s : s # ".")]

\* Path.joinpath(dir, path) for an absolute directory and a relative path
JoinPath(dir, p) == Some(TRUE, dir \o p.segs)

\* the operating system's walk along an absolute path: the canonical place it
\* names, "ok" false when a segment is looked up in something that is not a
\* directory
RECURSIVE Walk(_, _)
Walk(at, segs) ==
    IF segs = << >> THEN [ok |-> TRUE, at |-> at]
    ELSE IF at \notin Dirs THEN [ok |-> FALSE, at |-> at]
    ELSE IF segs[1] = ".." THEN Walk(Parent(at), Tail(segs))
    ELSE IF segs[1] = "." THEN Walk(at, Tail(segs))
    ELSE Walk(at \o <<segs[1]>>, Tail(segs))

\* Path.exists() on an absolute path, in the filesystem fs (the set of
\* existing targets; every directory of Dirs exists)
Exists(fs, p) ==
    LET w == Walk(<< >>, p.segs) IN w.ok /\ w.at \in (fs \cup Dirs)

\* mutant of Resolve: the path is returned as it was written
ResolveKeepsPath(p) == p

\* Path.resolve() of an existing absolute path: the canonical absolute path
Resolve(p) == Some(TRUE, Walk(<< >>, p.segs).at)


\* ------------------------------------------------------------- git (utils)
\* `git rev-parse --show-toplevel`: the top-level directory of the work tree
\* the working directory is in, or a non-zero exit (CalledProcessError) when
\* it is in none.  toplevel is the environment: None outside a repository.
GitRevParse(toplevel) ==
    IF toplevel.some THEN [exit |-> 0, out |-> toplevel]
    ELSE [exit |-> 128, out |-> None]

\* mutant of GetGitRoot: raise_error is not honoured
GetGitRootAlwaysRaises(toplevel, raise_error) ==
    LET r == GitRevParse(toplevel) IN
    IF r.exit = 0 THEN [raised |-> "none", value |-> r.out]
    ELSE [raised |-> "RuntimeError", value |-> None]

\* get_git_root(raise_error): Path, None, or RuntimeError
GetGitRoot(toplevel, raise_error) ==
    LET r == GitRevParse(toplevel) IN
    IF r.exit = 0 THEN [raised |-> "none", value |-> r.out]
    ELSE IF raise_error THEN [raised |-> "RuntimeError", value |-> None]
    ELSE [raised |-> "none", value |-> None]

\* ------------------------------------------------------------ exceptions
\* an exception: its class, which raise statement made it, and the path and
\* key its message names
Err(type, what, p, key) == [type |-> type, what |-> what, path |-> p, key |-> key]

NoError == Err("none", "", None, "")

\* FileNotFoundError(f"Configuration path '{path}' ...")
FileNotFound(p) == Err("FileNotFoundError", "not found", p, "")

\* ---------------------------------------------------------------- values
\* A configuration value (a Python object, an OmegaConf container made from
\* it, and what a YAML document parses to): a tag and a payload.
VNull == [t |-> "null", v |-> 0]

VInt(n) == [t |-> "int", v |-> n]

VStr(s) == [t |-> "str", v |-> s]

VSeq(s) == [t |-> "seq", v |-> s]

VMap(f) == [t |-> "map", v |-> f]

EmptyMap == VMap([k \in {} |-> VNull])

\* {key: value}
One(key, value) == VMap([k \in {key} |-> value])

\* dict item assignment  d[key] = value
Put(f, key, value) ==
    [k \in (DOMAIN f) \cup {key} |-> IF k = key THEN value ELSE f[k]]

IsContainer(x) == x.t \in {"map", "seq"}

\* ------------------------------------------------------------ YAML files
\* What a file holds is modelled by what PyYAML makes of its text: a value,
\* or one of
\*   "malformed"    the text is not YAML                     (yaml.YAMLError)
\*   "unreadable"   the file cannot be opened or read        (OSError)
\*   "unsupported"  a mapping holding a value OmegaConf has no node type for
DocMalformed == [t |-> "malformed", v |-> 0]

DocUnreadable == [t |-> "unreadable", v |-> 0]

DocUnsupported == [t |-> "unsupported", v |-> 0]

Outcome(exc, invalid_type, value) ==
    [raised |-> exc, invalid_type |-> invalid_type, value |-> value]

\* OmegaConf.load(file): yaml.load, then "Invalid loaded object type" (IOError)
\* for a document that is neither None, list, dict nor str; OmegaConf.create()
\* for None; OmegaConf.create(obj) otherwise, which turns a str document s
\* into {s: None}.
OmegaConfLoad(doc) ==
    CASE doc.t = "unreadable"  -> Outcome("OSError", FALSE, VNull)
      [] doc.t = "malformed"   -> Outcome("YAMLError", FALSE, VNull)
      [] doc.t = "unsupported" -> Outcome("OmegaConfBaseException", FALSE, VNull)
      [] doc.t = "int"         -> Outcome("OSError", TRUE, VNull)
      [] doc.t = "null"        -> Outcome("none", FALSE, EmptyMap)
      [] doc.t = "str"         -> Outcome("none", FALSE, One(doc.v, VNull))
      [] OTHER                 -> Outcome("none", FALSE, doc)

\* yaml.safe_load(stream) of a file whose text is YAML: the document's value
YamlSafeLoad(doc) == doc

\* OmegaConf.to_container(cfg, resolve=False): the plain dict / list
ToContainer(cfg) == cfg

\* ------------------------------------------------------- directory entries
\* A directory entry's name is the sequence of its "."-separated parts:
\* foo.yaml is <<"foo", "yaml">>, the directory b is <<"b">>.
RECURSIVE NameStr(_)
NameStr(parts) ==
    IF Len(parts) = 1 THEN parts[1]
    ELSE parts[1] \o "." \o NameStr(Tail(parts))

\* mutant of Stem: child.name is used where child.stem is meant
StemKeepsSuffix(parts) == NameStr(parts)

\* PurePath.stem: the name without its last suffix; a name has a suffix when
\* its last "." is neither its first nor its last character
Stem(parts) ==
    LET n == Len(parts) IN
    IF n > 1 /\ parts[n] # "" /\ NameStr(SubSeq(parts, 1, n - 1)) # ""
    THEN NameStr(SubSeq(parts, 1, n - 1))
    ELSE NameStr(parts)

\* every entry name of the model, in the order Python compares the names
\* (str.__lt__ on the joined name), which is the order of
\* sorted(path.iterdir(), key=lambda item: item.name)
NameOrder == << <<"a", "yaml">>, <<"b">>, <<"c", "yaml">>, <<"foo">>,
                <<"foo", "yaml">>, <<"foo", "yml">>, <<"numbers", "yaml">> >>

Rank(name) == CHOOSE i \in 1..Len(NameOrder) : NameOrder[i] = name

\* sorted(children, key=name)
RECURSIVE SortedNames(_)
SortedNames(names) ==
    IF names = {} THEN << >>
    ELSE LET first == CHOOSE n \in names : \A m \in names : Rank(n) <= Rank(m)
         IN <<first>> \o SortedNames(names \ {first})

\* filesystem nodes
File(doc) == [kind |-> "file", doc |-> doc, entries |-> << >>]

Dir(entries) == [kind |-> "dir", doc |-> VNull, entries |-> entries]

\* neither a file nor a directory (a socket, a dangling symlink)
Other == [kind |-> "other", doc |-> VNull, entries |-> << >>]

Missing == [kind |-> "missing", doc |-> VNull, entries |-> << >>]

Loaded(exc, value) == [raised |-> exc, value |-> value]

DuplicateKey(key, p) == Err("ValueError", "duplicate key", p, key)

FailedToLoad(p) == Err("ValueError", "failed to load", p, "")

\* an exception the loader does not catch
Uncaught(type, p) == Err(type, "uncaught", p, "")

Child(p, name) == Some(TRUE, p.segs \o <<NameStr(name)>>)

\* mutant of LoadFileEntry: the single-key unwrap (lines 287-296) is missing
LoadFileEntryKeepsWrapper(child, doc) ==
    LET got == OmegaConfLoad(doc) IN
    IF got.raised \in {"OSError", "OmegaConfBaseException"}
    THEN IF got.raised = "OSError" /\ got.invalid_type
         THEN Loaded(NoError, YamlSafeLoad(doc))
         ELSE Loaded(FailedToLoad(child), VNull)
    ELSE IF got.raised # "none"
    THEN Loaded(Uncaught(got.raised, child), VNull)
    ELSE Loaded(NoError, ToContainer(got.value))

\* mutant of LoadFileEntry: the re-read value is used whenever it is no
\* container, the parse being a one-key null mapping or not
LoadFileEntryUnwrapsAnyParse(child, doc) ==
    LET got == OmegaConfLoad(doc)
        container == ToContainer(got.value)
        yaml_value == YamlSafeLoad(doc)
    IN
    IF got.raised \in {"OSError", "OmegaConfBaseException"}
    THEN IF got.raised = "OSError" /\ got.invalid_type
         THEN Loaded(NoError, YamlSafeLoad(doc))
         ELSE Loaded(FailedToLoad(child), VNull)
    ELSE IF got.raised # "none"
    THEN Loaded(Uncaught(got.raised, child), VNull)
    ELSE IF ~IsContainer(yaml_value)
    THEN Loaded(NoError, yaml_value)
    ELSE Loaded(NoError, container)

\* lines 270-297: one file of a directory, the value bound under its key
LoadFileEntry(child, doc) ==
    LET got == OmegaConfLoad(doc)
        container == ToContainer(got.value)
        yaml_value == YamlSafeLoad(doc)
    IN
    IF got.raised \in {"OSError", "OmegaConfBaseException"}
    THEN IF got.raised = "OSError" /\ got.invalid_type
         THEN Loaded(NoError, YamlSafeLoad(doc))
         ELSE Loaded(FailedToLoad(child), VNull)
    ELSE IF got.raised # "none"
    THEN Loaded(Uncaught(got.raised, child), VNull)
    ELSE IF /\ container.t = "map"
            /\ Cardinality(DOMAIN container.v) = 1
            /\ (\A k \in DOMAIN container.v : container.v[k] = VNull)
            /\ ~IsContainer(yaml_value)
    THEN Loaded(NoError, yaml_value)
    ELSE Loaded(NoError, container)

\* mutant of KeyTaken: the duplicate check is missing
KeyNeverTaken(key, config_data) == FALSE

\* lines 262 and 272: `key in config_data`
KeyTaken(key, config_data) == key \in DOMAIN config_data

\* lines 248-306: _load_config_from_path(path), node being what path names
RECURSIVE LoadConfigFromPath(_, _)
RECURSIVE LoadChildren(_, _, _, _)
\* lines 259-297: the loop over the sorted children, config_data so far
LoadChildren(p, entries, names, config_data) ==
    IF names = << >> THEN Loaded(NoError, VMap(config_data))
    ELSE
    LET name == names[1]
        node == entries[name]
        child == Child(p, name)
    IN
    IF node.kind = "dir"
    THEN LET key == NameStr(name) IN
         IF KeyTaken(key, config_data)
         THEN Loaded(DuplicateKey(key, p), VNull)
         ELSE LET nested == LoadConfigFromPath(child, node) IN
              IF nested.raised # NoError THEN nested
              ELSE LoadChildren(p, entries, Tail(names),
                                Put(config_data, key, ToContainer(nested.value)))
    ELSE IF node.kind = "file"
    THEN LET key == Stem(name) IN
         IF KeyTaken(key, config_data)
         THEN Loaded(DuplicateKey(key, p), VNull)
         ELSE LET entry == LoadFileEntry(child, node.doc) IN
              IF entry.raised # NoError THEN entry
              ELSE LoadChildren(p, entries, Tail(names),
                                Put(config_data, key, entry.value))
    ELSE LoadChildren(p, entries, Tail(names), config_data)

LoadConfigFromPath(p, node) ==
    IF ~p.some THEN Loaded(NoError, EmptyMap)
    ELSE IF node.kind = "dir"
    THEN LoadChildren(p, node.entries, SortedNames(DOMAIN node.entries),
                      [k \in {} |-> VNull])
    ELSE IF node.kind = "file"
    THEN LET got == OmegaConfLoad(node.doc) IN
         IF got.raised \in {"OSError", "OmegaConfBaseException"}
         THEN Loaded(FailedToLoad(p), VNull)
         ELSE IF got.raised # "none" THEN Loaded(Uncaught(got.raised, p), VNull)
         ELSE Loaded(NoError, got.value)
    ELSE Loaded(FileNotFound(p), VNull)

\* ------------------------------------------------------------- overrides
\* One entry of params as the caller writes it: [+]seg.seg...=value, or the
\* same with no "=".  val is what yaml.load makes of the text after "=".
Entry(plus, segs, has_eq, val) ==
    [plus |-> plus, segs |-> segs, has_eq |-> has_eq, val |-> val]

\* merge_with_dotlist: key = arg[0:idx], split at the dots.  A leading "+"
\* is not separated from the first segment.
DotlistKey(e) ==
    IF e.plus THEN <<"+" \o e.segs[1]>> \o Tail(e.segs) ELSE e.segs

\* merge_with_dotlist: value = yaml.load(arg[idx + 1:]), None with no "="
DotlistValue(e) == IF e.has_eq THEN e.val ELSE VNull

\* OmegaConf refuses to merge a mapping into a sequence or a sequence into a
\* mapping (BaseContainer._merge_with: "Cannot merge DictConfig with
\* ListConfig"): the two operands hold such a pair at some common path
\* mutant of MergeClash: a sequence and a mapping are merged like any pair
MergeNeverClashes(a, b) == FALSE

RECURSIVE MergeClash(_, _)
MergeClash(a, b) ==
    IF a.t = "map" /\ b.t = "map"
    THEN \E k \in (DOMAIN a.v) \cap (DOMAIN b.v) : MergeClash(a.v[k], b.v[k])
    ELSE IsContainer(a) /\ IsContainer(b) /\ a.t # b.t

\* mutant of MergeValues: the left operand is kept
MergeValuesKeepsLeft(a, b) == a

RECURSIVE MergeValues(_, _)
\* OmegaConf.merge / merge_with on two nodes that do not clash: mapping with
\* mapping merges key by key, anything else is replaced by the right operand
MergeValues(a, b) ==
    IF a.t = "map" /\ b.t = "map"
    THEN VMap([k \in (DOMAIN a.v) \cup (DOMAIN b.v) |->
                IF k \notin DOMAIN b.v THEN a.v[k]
                ELSE IF k \notin DOMAIN a.v THEN b.v[k]
                ELSE MergeValues(a.v[k], b.v[k])])
    ELSE b

MergeError == Err("TypeError", "merge", None, "")

\* mutant of MergeConfigs: the operands are swapped
MergeConfigsRightFirst(a, b) ==
    IF MergeClash(a, b) THEN Loaded(MergeError, VNull)
    ELSE Loaded(NoError, MergeValues(b, a))

\* OmegaConf.merge(a, b), lines 159 and 163
MergeConfigs(a, b) ==
    IF MergeClash(a, b) THEN Loaded(MergeError, VNull)
    ELSE Loaded(NoError, MergeValues(a, b))

\* mutant of Update: a key the configuration does not hold yet is refused
UpdateRefusesNewKey(cfg, segs, value) ==
    IF segs[1] \notin DOMAIN cfg.v
    THEN Loaded(Err("ConfigKeyError", "update", None, segs[1]), VNull)
    ELSE Loaded(NoError, VMap(Put(cfg.v, segs[1], value)))

RECURSIVE Update(_, _, _)
\* OmegaConf.update(cfg, key, value): an intermediate node that is missing or
\* no container becomes {}; at the last segment a container value is merged
\* into a container node, any other value is set.  A path that leads through
\* a sequence fails (the segment is no index).
Update(cfg, segs, value) ==
    LET k == segs[1]
        has == k \in DOMAIN cfg.v
    IN
    IF Len(segs) = 1
    THEN IF has /\ IsContainer(value) /\ IsContainer(cfg.v[k])
         THEN IF MergeClash(cfg.v[k], value) THEN Loaded(MergeError, VNull)
              ELSE Loaded(NoError, VMap(Put(cfg.v, k, MergeValues(cfg.v[k], value))))
         ELSE Loaded(NoError, VMap(Put(cfg.v, k, value)))
    ELSE IF has /\ cfg.v[k].t = "seq"
    THEN Loaded(Err(IF Len(segs) = 2 THEN "ValueError" ELSE "TypeError",
                    "update", None, segs[2]), VNull)
    ELSE LET next_root == IF has /\ cfg.v[k].t = "map" THEN cfg.v[k] ELSE EmptyMap
             sub == Update(next_root, Tail(segs), value)
         IN IF sub.raised # NoError THEN sub
            ELSE Loaded(NoError, VMap(Put(cfg.v, k, sub.value)))

\* mutant of MergeWithDotlist: the entries are applied last to first
RECURSIVE MergeWithDotlistFirstWins(_, _)
MergeWithDotlistFirstWins(cfg, dotlist) ==
    IF dotlist = << >> THEN Loaded(NoError, cfg)
    ELSE LET rest == MergeWithDotlistFirstWins(cfg, Tail(dotlist))
         IN IF rest.raised # NoError THEN rest
            ELSE Update(rest.value, DotlistKey(dotlist[1]), DotlistValue(dotlist[1]))

RECURSIVE MergeWithDotlist(_, _)
\* DictConfig.merge_with_dotlist: one update per entry, in order
MergeWithDotlist(cfg, dotlist) ==
    IF dotlist = << >> THEN Loaded(NoError, cfg)
    ELSE LET step == Update(cfg, DotlistKey(dotlist[1]), DotlistValue(dotlist[1]))
         IN IF step.raised # NoError THEN step
            ELSE MergeWithDotlist(step.value, Tail(dotlist))

\* OmegaConf.from_dotlist(list(params))
FromDotlist(dotlist) == MergeWithDotlist(EmptyMap, dotlist)

ParamsNone == [some |-> FALSE, items |-> << >>]

Params(items) == [some |-> TRUE, items |-> items]

\* line 156: `... if params else OmegaConf.create()`
ParseParams(ps) ==
    IF ps.some /\ ps.items # << >> THEN FromDotlist(ps.items)
    ELSE Loaded(NoError, EmptyMap)

\* ---------------------------------------------------------------- schema
\* A schema is a dataclass: each field has a declared type ("int", "str" or
\* "list[int]") and a default, VMissing standing for "no default"
\* (OmegaConf's MISSING, "???").
VMissing == [t |-> "missing", v |-> 0]

Field(type, default) == [type |-> type, default |-> default]

NoSchema == [some |-> FALSE, fields |-> [k \in {} |-> Field("int", VMissing)]]

Schema(fields) == [some |-> TRUE, fields |-> fields]

\* mutant of Structured: a field without default starts as None
StructuredNoneForMissing(schema) ==
    VMap([k \in DOMAIN schema.fields |->
            IF schema.fields[k].default = VMissing THEN VNull
            ELSE schema.fields[k].default])

\* OmegaConf.structured(schema): the defaults
Structured(schema) == VMap([k \in DOMAIN schema.fields |-> schema.fields[k].default])

ValidationError(key) == Err("ValidationError", "schema", None, key)

\* what merging value into the field key of declared type makes of it: the
\* converted value or the error.  No field is Optional, so None is refused;
\* an int is converted to str for a str field; the strings of the model are
\* no numerals, so none converts to int.
Validate(type, key, value) ==
    CASE type = "int" ->
           IF value.t = "int" THEN Loaded(NoError, value)
           ELSE Loaded(ValidationError(key), VNull)
      [] type = "str" ->
           IF value.t = "str" THEN Loaded(NoError, value)
           ELSE IF value.t = "int" THEN Loaded(NoError, VStr(ToString(value.v)))
           ELSE Loaded(ValidationError(key), VNull)
      [] type = "list[int]" ->
           IF value.t = "map" THEN Loaded(MergeError, VNull)
           ELSE IF value.t = "seq" /\ \A i \in DOMAIN value.v : value.v[i].t = "int"
           THEN Loaded(NoError, value)
           ELSE Loaded(ValidationError(key), VNull)

\* mutant of ApplySchema: a key the schema does not declare is dropped
ApplySchemaIgnoresUnknown(schema, composed) ==
    LET declared == DOMAIN schema.fields
        given == (DOMAIN composed.v) \cap declared
        errors == { Validate(schema.fields[k].type, k, composed.v[k]) : k \in given }
                     \ { o \in { Validate(schema.fields[k].type, k, composed.v[k]) : k \in given } :
                           o.raised = NoError }
        merged == [k \in declared |->
                     IF k \in given
                     THEN Validate(schema.fields[k].type, k, composed.v[k]).value
                     ELSE Structured(schema).v[k]]
        missing == { k \in declared : merged[k] = VMissing }
    IN
    IF errors # {} THEN errors
    ELSE IF missing # {}
    THEN { Loaded(Err("MissingMandatoryValue", "schema", None, k), VNull) : k \in missing }
    ELSE { Loaded(NoError, VMap(merged)) }

\* mutant of ApplySchema: the flattening keeps the keys the tree gave only
ApplySchemaKeepsGivenOnly(schema, composed) ==
    LET declared == DOMAIN schema.fields
        given == (DOMAIN composed.v) \cap declared
        unknown == (DOMAIN composed.v) \ declared
        checked == { Validate(schema.fields[k].type, k, composed.v[k]) : k \in given }
        errors == { Loaded(Err("ConfigKeyError", "schema", None, k), VNull) : k \in unknown }
                     \cup { o \in checked : o.raised # NoError }
        missing == { k \in declared \ given : Structured(schema).v[k] = VMissing }
    IN
    IF errors # {} THEN errors
    ELSE IF missing # {}
    THEN { Loaded(Err("MissingMandatoryValue", "schema", None, k), VNull) : k \in missing }
    ELSE { Loaded(NoError,
                  VMap([k \in given |->
                          Validate(schema.fields[k].type, k, composed.v[k]).value])) }

\* lines 162-167: merge the composed tree over the schema's defaults, build
\* the instance and flatten it one level; the set of the possible outcomes.
\* The merge visits the keys of the composed tree in their order, which the
\* model does not keep: with several offending keys any of them may be the
\* one that raises.  A structured config rejects a key the dataclass does not
\* declare (ConfigKeyError) and a value not of the field's type; to_object
\* rejects a field left MISSING.
ApplySchema(schema, composed) ==
    LET declared == DOMAIN schema.fields
        given == (DOMAIN composed.v) \cap declared
        unknown == (DOMAIN composed.v) \ declared
        checked == { Validate(schema.fields[k].type, k, composed.v[k]) : k \in given }
        errors == { Loaded(Err("ConfigKeyError", "schema", None, k), VNull) : k \in unknown }
                     \cup { o \in checked : o.raised # NoError }
        merged == [k \in declared |->
                     IF k \in given
                     THEN Validate(schema.fields[k].type, k, composed.v[k]).value
                     ELSE Structured(schema).v[k]]
        missing == { k \in declared : merged[k] = VMissing }
    IN
    IF errors # {} THEN errors
    ELSE IF missing # {}
    THEN { Loaded(Err("MissingMandatoryValue", "schema", None, k), VNull) : k \in missing }
    ELSE { Loaded(NoError, VMap(merged)) }

\* ------------------------------------------------------------------ state
VARIABLES
    cwd,               \* Path.cwd(), a directory of Dirs
    present,           \* the targets that exist in the filesystem
    tree,              \* what an existing target holds: a file or a directory
    git_toplevel,      \* the enclosing git work tree, None outside one
    self_config_path,  \* HamiltonComposer._config_path
    self_schema,       \* HamiltonComposer._schema
    path,              \* load_config(path=...)
    params,            \* load_config(params=...)
    search_git_root,   \* load_config(search_git_root=...)
    search_recursive,  \* load_config(search_recursive=...)
    pc,                \* position inside load_config
    current_dir,       \* the loop variable of the recursive search
    probes,            \* every exists() call made so far, in order
    git_lookup,        \* outcome of the get_git_root call, "not called" before it
    config_path,       \* what _resolve_config_path returned
    params_cfg,        \* line 156, the parsed overrides
    composed,          \* line 158, what _load_config_from_path returned
    result,            \* what load_config returned
    raised,            \* the exception load_config ends with
    calls,             \* the load_config calls made on the composer so far
    first,             \* the arguments and the outcome of the first call
    argv,              \* the command line: entry, command, name, params, options
    composer_keywords, \* the keywords the composer's load_config accepts
    project,           \* the pipelines the pipeline function returns
    context,           \* ctx.obj, the AppContext
    cli_pc,            \* position inside the command line application
    config_local,      \* the local  config  of a command
    pipelines_local,   \* the local  pipelines  of a command
    log,               \* the calls a command has made, in order
    composer_calls,    \* the calls AppContext has made of composer.load_config
    last,              \* the outcome of the last AppContext.load_config call
    loads,             \* the AppContext.load_config calls made so far
    exit_code,         \* the exit code of the command line
    cli_raised,        \* the exception the command line ends with
    entry_point,       \* the Pipeline method called, "none" before the call
    raw_inputs,        \* the inputs argument of the Pipeline method
    driver_config,     \* driver.config of the driver the pipeline builds
    driver_inputs      \* the inputs the driver's method has received

Inputs == <<cwd, present, tree, git_toplevel, self_config_path, self_schema,
            path, params, search_git_root, search_recursive, calls, first>>

resolveVars == <<pc, current_dir, probes, git_lookup, config_path, raised>>

composeVars == <<params_cfg, composed, result>>

\* the command line application and its context
appVars == <<argv, composer_keywords, project, context, cli_pc, config_local,
             pipelines_local, log, composer_calls, last, loads, exit_code, cli_raised>>

\* a Pipeline and the driver it builds
pipelineVars == <<entry_point, raw_inputs, driver_config, driver_inputs>>

vars == <<Inputs, resolveVars, composeVars, appVars, pipelineVars>>

\* ------------------------------------------------ command line: the data
\* the key=value strings a command line holds at most
MaxArgs == 2

\* the positional PARAMS of a command: a tuple of raw strings
CliStrings == {"numbers=[2,3,4]", "x=1"}

CliParams == UNION { [1..n -> CliStrings] : n \in 0..MaxArgs }

\* the configurations a composer may return
Configs == {EmptyMap, One("x", VInt(1)), One("numbers", VSeq(<<VInt(2), VInt(3), VInt(4)>>))}

\* the names a command line may ask for
PipelineNames == {"simple_pipeline", "private_pipeline", "nonexistent_pipeline"}

\* a Pipeline: pipeline.py line 83, self._public
Pipeline(public) == [public |-> public]

\* what the pipeline function of the project returns: a public and a
\* private pipeline, or no pipeline at all
Projects ==
    { [n \in {"simple_pipeline", "private_pipeline"} |-> Pipeline(n = "simple_pipeline")],
      [n \in {} |-> Pipeline(TRUE)] }

\* the parameters of HamiltonComposer.load_config, composer.py lines 103-111
LoadConfigParameters ==
    {"path", "params", "search_git_root", "search_recursive", "filepath"}

\* the keywords AppContext.load_config passes, context.py lines 50-56
ContextCallKeywords ==
    {"directory", "name", "params", "search_git_root", "search_recursive"}

\* the parameters of AppContext.__init__, context.py lines 16-26
AppContextParameters ==
    {"name", "composer", "logger", "config_directory", "config_name",
     "search_recursive", "search_git_root"}

\* the keywords main passes to AppContext, factory.py lines 71-78
MainKeywords ==
    {"name", "composer", "logger", "config_file", "search_git_root", "search_recursive"}

\* Python: a call with a keyword the function does not declare
UnexpectedKeyword(key) == Err("TypeError", "unexpected keyword argument", None, key)

\* an exception raised by a collaborator: the composer, the pipeline
\* function, the driver or the shell
Failure(what) == Err("Exception", what, None, "")

\* click.BadParameter of run.py lines 38 and 40
BadParameter(what, name) == Err("BadParameter", what, None, name)

\* no context has been made
NoContext ==
    [made |-> FALSE, config_directory |-> None, config_name |-> None,
     search_recursive |-> FALSE, search_git_root |-> FALSE, cached_config |-> VNull]

\* context.py lines 27-35: the context AppContext.__init__ makes
AppContext(config_directory, config_name, recursive, git_root) ==
    [made |-> TRUE, config_directory |-> config_directory, config_name |-> config_name,
     search_recursive |-> recursive, search_git_root |-> git_root, cached_config |-> VNull]

\* the local  pipelines  before find_pipelines has returned
NoPipelines == [found |-> FALSE, pipelines |-> [n \in {} |-> Pipeline(TRUE)]]

Found(pipelines) == [found |-> TRUE, pipelines |-> pipelines]

\* python None and a dict as the inputs of a Pipeline method
NoDict == [some |-> FALSE, items |-> [k \in {} |-> 0]]

Dict(items) == [some |-> TRUE, items |-> items]

NotCalled == [called |-> FALSE, inputs |-> NoDict]

\* no command line is being run
NoCommandLine ==
    /\ argv = [via |-> "none", command |-> "none", pipeline_name |-> "",
               params |-> << >>, config_file |-> None,
               search_git_root |-> FALSE, search_recursive |-> FALSE]
    /\ composer_keywords = LoadConfigParameters
    /\ project = [n \in {} |-> Pipeline(TRUE)]
    /\ context = NoContext
    /\ cli_pc = "none"
    /\ config_local = VNull
    /\ pipelines_local = NoPipelines
    /\ log = << >>
    /\ composer_calls = << >>
    /\ last = Loaded(NoError, VNull)
    /\ loads = 0
    /\ exit_code = 0
    /\ cli_raised = NoError

\* no Pipeline method is being called
NoPipeline ==
    /\ entry_point = "none"
    /\ raw_inputs = NoDict
    /\ driver_config = [k \in {} |-> 0]
    /\ driver_inputs = NotCalled

Probe(strategy, p) == [strategy |-> strategy, path |-> p]

\* mutant of InitialPath: the constructor's location wins over the call's
InitialPathPrefersConstructor == IF self_config_path.some THEN self_config_path ELSE path

\* load_config line 151: the call's path wins over the constructor's
InitialPath == IF path.some THEN path ELSE self_config_path

\* the ancestors-or-self of a directory
AncestorsOf(d) == { SubSeq(d, 1, k) : k \in 0..Len(d) }

X1 == One("x", VInt(1))

\* a configuration file  x: 1
DefaultTree == File(X1)

\* no call of load_config has ended yet
NoCall == [made |-> FALSE]

\* load_config has been called and has done nothing yet
Called ==
    /\ NoCommandLine
    /\ NoPipeline
    /\ calls = 1
    /\ first = NoCall
    /\ pc = "resolve"
    /\ current_dir = cwd
    /\ probes = << >>
    /\ git_lookup = "not called"
    /\ config_path = None
    /\ params_cfg = EmptyMap
    /\ composed = EmptyMap
    /\ result = EmptyMap
    /\ raised = NoError

\* path resolution: every working directory, filesystem, repository,
\* location and flag combination of the model
InitResolve ==
    /\ cwd \in Dirs
    /\ present \in SUBSET Targets
    /\ git_toplevel \in {None} \cup { Some(TRUE, d) : d \in AncestorsOf(cwd) }
    /\ self_config_path \in {None, Some(FALSE, <<ConfName>>)}
    /\ path \in Locations
    /\ search_git_root \in BOOLEAN
    /\ search_recursive \in BOOLEAN
    /\ tree = DefaultTree
    /\ params = ParamsNone
    /\ self_schema = NoSchema
    /\ Called

\* return from _resolve_config_path
Return(p) ==
    /\ config_path' = p
    /\ pc' = "params"
    /\ raised' = raised

Raise(e) ==
    /\ raised' = e
    /\ pc' = "raised"
    /\ config_path' = config_path

\* lines 214-215
ResolveNone ==
    /\ pc = "resolve"
    /\ ~InitialPath.some
    /\ Return(None)
    /\ UNCHANGED <<appVars, pipelineVars, Inputs, composeVars, current_dir, probes, git_lookup>>

\* mutant of ResolveAbsolute: a missing absolute path falls through to the
\* searches instead of raising
ResolveAbsoluteFallsThrough ==
    /\ pc = "resolve"
    /\ InitialPath.some
    /\ LET p == PathOf(InitialPath) IN
       /\ p.abs
       /\ probes' = Append(probes, Probe("absolute", p))
       /\ IF ~Exists(present, p)
          THEN pc' = "git" /\ UNCHANGED <<config_path, raised>>
          ELSE Return(Resolve(p))
    /\ UNCHANGED <<appVars, pipelineVars, Inputs, composeVars, current_dir, git_lookup>>

\* lines 217-222
ResolveAbsolute ==
    /\ pc = "resolve"
    /\ InitialPath.some
    /\ LET p == PathOf(InitialPath) IN
       /\ p.abs
       /\ probes' = Append(probes, Probe("absolute", p))
       /\ IF ~Exists(present, p) THEN Raise(FileNotFound(p))
          ELSE Return(Resolve(p))
    /\ UNCHANGED <<appVars, pipelineVars, Inputs, composeVars, current_dir, git_lookup>>

\* mutant of ProbeLocal: the return after a local hit is missing
ProbeLocalFallsThrough ==
    /\ pc = "resolve"
    /\ InitialPath.some
    /\ LET p == PathOf(InitialPath)
           local_path == JoinPath(cwd, p) IN
       /\ ~p.abs
       /\ probes' = Append(probes, Probe("local", local_path))
       /\ config_path' = IF Exists(present, local_path) THEN Resolve(local_path)
                         ELSE config_path
       /\ pc' = "git"
       /\ UNCHANGED raised
    /\ UNCHANGED <<appVars, pipelineVars, Inputs, composeVars, current_dir, git_lookup>>

\* lines 224-226
ProbeLocal ==
    /\ pc = "resolve"
    /\ InitialPath.some
    /\ LET p == PathOf(InitialPath)
           local_path == JoinPath(cwd, p) IN
       /\ ~p.abs
       /\ probes' = Append(probes, Probe("local", local_path))
       /\ IF Exists(present, local_path) THEN Return(Resolve(local_path))
          ELSE /\ pc' = "git"
               /\ UNCHANGED <<config_path, raised>>
    /\ UNCHANGED <<appVars, pipelineVars, Inputs, composeVars, current_dir, git_lookup>>

\* lines 228-233
ProbeGitRoot ==
    /\ pc = "git"
    /\ LET p == PathOf(InitialPath)
           got == GetGitRoot(git_toplevel, FALSE)
           git_root == got.value
           git_path == JoinPath(git_root.segs, p) IN
       IF ~search_git_root
       THEN /\ pc' = "recursive"
            /\ UNCHANGED <<probes, git_lookup, config_path, raised>>
       ELSE IF got.raised # "none"
       THEN /\ git_lookup' = got.raised
            /\ Raise(Err(got.raised, "git", None, ""))
            /\ UNCHANGED probes
       ELSE IF ~git_root.some
       THEN /\ git_lookup' = "None"
            /\ pc' = "recursive"
            /\ UNCHANGED <<probes, config_path, raised>>
       ELSE /\ git_lookup' = "found"
            /\ probes' = Append(probes, Probe("git", git_path))
            /\ IF Exists(present, git_path) THEN Return(Resolve(git_path))
               ELSE /\ pc' = "recursive"
                    /\ UNCHANGED <<config_path, raised>>
    /\ UNCHANGED <<appVars, pipelineVars, Inputs, composeVars, current_dir>>

\* mutant of LoopContinues: the loop has no exit at the root
LoopNeverEnds(dir) == TRUE

\* line 237: the loop condition of the recursive search
LoopContinues(dir) == dir # Parent(dir)

\* lines 235-241, one iteration of the while loop
RecursiveStep ==
    /\ pc = "recursive"
    /\ search_recursive
    /\ LoopContinues(current_dir)
    /\ LET p == PathOf(InitialPath)
           candidate_path == JoinPath(current_dir, p) IN
       /\ probes' = Append(probes, Probe("recursive", candidate_path))
       /\ IF Exists(present, candidate_path)
          THEN /\ Return(Resolve(candidate_path))
               /\ UNCHANGED current_dir
          ELSE /\ current_dir' = Parent(current_dir)
               /\ UNCHANGED <<pc, config_path, raised>>
    /\ UNCHANGED <<appVars, pipelineVars, Inputs, composeVars, git_lookup>>

\* mutant of RaiseNotFound: the message names the absolutized local path
RaiseNotFoundNamesLocalPath ==
    /\ pc = "recursive"
    /\ ~(search_recursive /\ LoopContinues(current_dir))
    /\ Raise(FileNotFound(JoinPath(cwd, PathOf(InitialPath))))
    /\ UNCHANGED <<appVars, pipelineVars, Inputs, composeVars, current_dir, probes, git_lookup>>

\* lines 243-246
RaiseNotFound ==
    /\ pc = "recursive"
    /\ ~(search_recursive /\ LoopContinues(current_dir))
    /\ Raise(FileNotFound(PathOf(InitialPath)))
    /\ UNCHANGED <<appVars, pipelineVars, Inputs, composeVars, current_dir, probes, git_lookup>>

NextResolve ==
    \/ ResolveNone
    \/ ResolveAbsolute
    \/ ProbeLocal
    \/ ProbeGitRoot
    \/ RecursiveStep
    \/ RaiseNotFound

SpecResolve == InitResolve /\ [][NextResolve]_vars

\* the interpreter runs the call on: a step that can be taken is taken
SpecResolveFair == SpecResolve /\ WF_vars(NextResolve)

\* ------------------------------------------------- load_config, lines 156-171
RaiseIn(e) ==
    /\ raised' = e
    /\ pc' = "raised"

\* mutant of ParseOverrides: the call's location is remembered by the composer
ParseOverridesStoresPath ==
    /\ pc = "params"
    /\ LET parsed == ParseParams(params) IN
       IF parsed.raised # NoError
       THEN /\ RaiseIn(parsed.raised)
            /\ UNCHANGED params_cfg
       ELSE /\ params_cfg' = parsed.value
            /\ pc' = "load"
            /\ UNCHANGED raised
    /\ self_config_path' = IF path.some THEN path ELSE self_config_path
    /\ UNCHANGED <<appVars, pipelineVars,
                   cwd, present, tree, git_toplevel, self_schema, path, params,
                   search_git_root, search_recursive, calls, first,
                   current_dir, probes, git_lookup, config_path, composed, result>>

\* line 156
ParseOverrides ==
    /\ pc = "params"
    /\ LET parsed == ParseParams(params) IN
       IF parsed.raised # NoError
       THEN /\ RaiseIn(parsed.raised)
            /\ UNCHANGED params_cfg
       ELSE /\ params_cfg' = parsed.value
            /\ pc' = "load"
            /\ UNCHANGED raised
    /\ UNCHANGED <<appVars, pipelineVars, Inputs, current_dir, probes, git_lookup, config_path,
                   composed, result>>

Numbers234 == VSeq(<<VInt(2), VInt(3), VInt(4)>>)

\* what the filesystem holds at a place: /conf holds the variable tree, every
\* target below a directory of the chain a file  numbers: [2, 3, 4]
TreeAt(p) ==
    IF p.some /\ p.segs # <<ConfName>> THEN File(One("numbers", Numbers234))
    ELSE tree

\* line 158
LoadTree ==
    /\ pc = "load"
    /\ LET got == LoadConfigFromPath(config_path, TreeAt(config_path)) IN
       IF got.raised # NoError
       THEN /\ RaiseIn(got.raised)
            /\ UNCHANGED composed
       ELSE /\ composed' = got.value
            /\ pc' = "merge"
            /\ UNCHANGED raised
    /\ UNCHANGED <<appVars, pipelineVars, Inputs, current_dir, probes, git_lookup, config_path,
                   params_cfg, result>>

\* lines 159-171
MergeAndReturn ==
    /\ pc = "merge"
    /\ LET merged == MergeConfigs(composed, params_cfg) IN
       IF merged.raised # NoError
       THEN RaiseIn(merged.raised) /\ UNCHANGED result
       ELSE \E config \in (IF self_schema.some
                           THEN ApplySchema(self_schema, merged.value)
                           ELSE {Loaded(NoError, ToContainer(merged.value))}) :
              IF config.raised # NoError
              THEN RaiseIn(config.raised) /\ UNCHANGED result
              ELSE /\ result' = config.value
                   /\ pc' = "done"
                   /\ UNCHANGED raised
    /\ UNCHANGED <<appVars, pipelineVars, Inputs, current_dir, probes, git_lookup, config_path,
                   params_cfg, composed>>

Next ==
    \/ ResolveNone
    \/ ResolveAbsolute
    \/ ProbeLocal
    \/ ProbeGitRoot
    \/ RecursiveStep
    \/ RaiseNotFound
    \/ ParseOverrides
    \/ LoadTree
    \/ MergeAndReturn

Y2 == One("y", VInt(2))

Numbers == VSeq(<<VInt(1), VInt(2), VInt(3)>>)

\* a.yaml (x: 1) and b/c.yaml (y: 2)
ExampleDir ==
    Dir([n \in {<<"a", "yaml">>, <<"b">>} |->
            IF n = <<"b">> THEN Dir([m \in {<<"c", "yaml">>} |-> File(Y2)])
            ELSE File(X1)])

ComposeTrees == {DefaultTree, ExampleDir, File(Numbers)}

ComposeParams ==
    { ParamsNone,
      Params(<< >>),
      Params(<<Entry(FALSE, <<"x">>, TRUE, VInt(2))>>),
      Params(<<Entry(TRUE, <<"key">>, TRUE, VStr("value"))>>),
      Params(<<Entry(FALSE, <<"b", "c">>, TRUE, VInt(3)),
               Entry(TRUE, <<"d">>, TRUE, VInt(4))>>) }

ComposeSchemas ==
    { NoSchema,
      Schema([k \in {"numbers"} |-> Field("list[int]", VMissing)]),
      Schema([k \in {"x"} |-> Field("int", VInt(0))]) }

\* the whole of load_config, from the deepest working directory
Init ==
    /\ cwd = Chain
    /\ present \in SUBSET Targets
    /\ git_toplevel \in {None, Some(TRUE, Parent(cwd))}
    /\ self_config_path \in {None, Some(FALSE, <<ConfName>>)}
    /\ path \in {None, Some(FALSE, <<ConfName>>), Some(TRUE, <<ConfName>>)}
    /\ search_git_root \in BOOLEAN
    /\ search_recursive \in BOOLEAN
    /\ tree \in ComposeTrees
    /\ params \in ComposeParams
    /\ self_schema \in ComposeSchemas
    /\ Called

Spec == Init /\ [][Next]_vars

\* --------------------------------------------- _load_config_from_path alone
\* entries a directory of the model holds at most, at its top level
MaxEntries == 2

Docs == { X1, One("foo", VNull), Numbers, VStr("hello"), VInt(42), VNull,
          DocMalformed, DocUnreadable, DocUnsupported }

EmptyDir == Dir([n \in {} |-> Other])

\* subdirectories: c.yaml (y: 2); nothing; foo.yaml beside foo/; b/c.yaml
SubDirs ==
    { Dir([n \in {<<"c", "yaml">>} |-> File(Y2)]),
      EmptyDir,
      Dir([n \in {<<"foo", "yaml">>, <<"foo">>} |->
              IF n = <<"foo">> THEN EmptyDir ELSE File(X1)]),
      Dir([n \in {<<"b">>} |-> Dir([m \in {<<"c", "yaml">>} |-> File(Numbers)])]) }

Nodes == { File(d) : d \in Docs } \cup SubDirs \cup {Other}

EntryNames == { NameOrder[i] : i \in 1..Len(NameOrder) }

\* the name sets a directory of the model may hold
EntrySets == { T \in SUBSET EntryNames : Cardinality(T) <= MaxEntries }

\* _resolve_config_path has returned /conf, which holds a file of Docs or a
\* directory of up to MaxEntries entries, each any node of Nodes
InitLoad ==
    /\ cwd = << >>
    /\ present = {<<ConfName>>}
    /\ git_toplevel = None
    /\ self_config_path = None
    /\ path = Some(TRUE, <<ConfName>>)
    /\ search_git_root = FALSE
    /\ search_recursive = FALSE
    /\ \/ tree \in { File(d) : d \in Docs }
       \/ \E S \in EntrySets : \E f \in [S -> Nodes] : tree = Dir(f)
    /\ params = ParamsNone
    /\ self_schema = NoSchema
    /\ NoCommandLine
    /\ NoPipeline
    /\ calls = 1
    /\ first = NoCall
    /\ pc = "load"
    /\ current_dir = cwd
    /\ probes = <<Probe("absolute", path)>>
    /\ git_lookup = "not called"
    /\ config_path = path
    /\ params_cfg = EmptyMap
    /\ composed = EmptyMap
    /\ result = EmptyMap
    /\ raised = NoError

NextLoad == LoadTree

SpecLoad == InitLoad /\ [][NextLoad]_vars

\* ------------------------------------------- load_config after resolution
\* entries the params of a call hold at most
MaxOverrides == 2

AB == VMap([k \in {"a", "b"} |-> IF k = "a" THEN VInt(1) ELSE One("c", VInt(2))])

\* what the resolved path may hold: single files of every top-level type,
\* files that cannot be read or parsed, and a directory
ComposeFiles ==
    { File(X1), File(AB), File(One("numbers", Numbers)), File(One("x", One("b", VInt(2)))),
      File(EmptyMap), File(Numbers), File(VInt(42)), File(VStr("hello")), File(VNull),
      File(DocMalformed), File(DocUnreadable), ExampleDir }

\* the override strings a caller may pass:
\*   x=1  x=2  x=[7]  x={a: 1}  x.a=5  b.c=3  +d=4  +key=value
\*   numbers=[2,3,4]  novalue  =v
Overrides ==
    { Entry(FALSE, <<"x">>, TRUE, VInt(1)),
      Entry(FALSE, <<"x">>, TRUE, VInt(2)),
      Entry(FALSE, <<"x">>, TRUE, VSeq(<<VInt(7)>>)),
      Entry(FALSE, <<"x">>, TRUE, One("a", VInt(1))),
      Entry(FALSE, <<"x", "a">>, TRUE, VInt(5)),
      Entry(FALSE, <<"b", "c">>, TRUE, VInt(3)),
      Entry(TRUE, <<"d">>, TRUE, VInt(4)),
      Entry(TRUE, <<"key">>, TRUE, VStr("value")),
      Entry(FALSE, <<"numbers">>, TRUE, VSeq(<<VInt(2), VInt(3), VInt(4)>>)),
      Entry(FALSE, <<"novalue">>, FALSE, VNull),
      Entry(FALSE, <<"">>, TRUE, VStr("v")) }

OverrideLists ==
    UNION { [1..n -> Overrides] : n \in 0..MaxOverrides }

Schemas ==
    { NoSchema,
      Schema([k \in {"numbers"} |-> Field("list[int]", VMissing)]),
      Schema([k \in {"x"} |-> Field("int", VInt(0))]),
      Schema([k \in {"x"} |-> Field("str", VStr("dflt"))]),
      Schema([k \in {"x", "key"} |->
                IF k = "x" THEN Field("int", VInt(0)) ELSE Field("str", VStr("dflt"))]) }

\* _resolve_config_path has returned: None (no location), or /conf
InitCompose ==
    /\ cwd = << >>
    /\ git_toplevel = None
    /\ self_config_path = None
    /\ search_git_root = FALSE
    /\ search_recursive = FALSE
    /\ \/ /\ path = None
          /\ present = {}
          /\ tree = Missing
          /\ probes = << >>
       \/ /\ path = Some(TRUE, <<ConfName>>)
          /\ present = {<<ConfName>>}
          /\ tree \in ComposeFiles
          /\ probes = <<Probe("absolute", path)>>
    /\ \/ params = ParamsNone
       \/ \E items \in OverrideLists : params = Params(items)
    /\ self_schema \in Schemas
    /\ NoCommandLine
    /\ NoPipeline
    /\ calls = 1
    /\ first = NoCall
    /\ pc = "params"
    /\ current_dir = cwd
    /\ git_lookup = "not called"
    /\ config_path = path
    /\ params_cfg = EmptyMap
    /\ composed = EmptyMap
    /\ result = EmptyMap
    /\ raised = NoError

NextCompose ==
    \/ ParseOverrides
    \/ LoadTree
    \/ MergeAndReturn

SpecCompose == InitCompose /\ [][NextCompose]_vars

\* ------------------------------------------- successive load_config calls
\* the load_config calls a composer receives at most
MaxCalls == 3

CallPaths == {None, Some(FALSE, <<ConfName>>), Some(TRUE, <<ConfName>>)}

CallParams == {ParamsNone, Params(<<Entry(FALSE, <<"x">>, TRUE, VInt(2))>>)}

\* the arguments of the current call
Arguments ==
    [path |-> path, params |-> params,
     search_git_root |-> search_git_root, search_recursive |-> search_recursive]

\* lines 103-111: the caller calls load_config again, with any arguments,
\* once the call before has returned or raised; the locals start afresh
CallAgain ==
    /\ pc \in {"done", "raised"}
    /\ calls < MaxCalls
    /\ calls' = calls + 1
    /\ first' = IF calls = 1
                THEN [made |-> TRUE, arguments |-> Arguments,
                      pc |-> pc, result |-> result, raised |-> raised]
                ELSE first
    /\ path' \in CallPaths
    /\ params' \in CallParams
    /\ search_git_root' \in BOOLEAN
    /\ search_recursive' \in BOOLEAN
    /\ pc' = "resolve"
    /\ current_dir' = cwd
    /\ probes' = << >>
    /\ git_lookup' = "not called"
    /\ config_path' = None
    /\ params_cfg' = EmptyMap
    /\ composed' = EmptyMap
    /\ result' = EmptyMap
    /\ raised' = NoError
    /\ UNCHANGED <<appVars, pipelineVars,
                   cwd, present, tree, git_toplevel, self_config_path, self_schema>>

\* a composer built with any location and schema of the model, in the
\* deepest working directory, its first call made with any arguments
InitCalls ==
    /\ cwd = Chain
    /\ present \in SUBSET {<<ConfName>>, Chain \o <<ConfName>>}
    /\ git_toplevel = None
    /\ tree = File(One("numbers", Numbers))
    /\ self_config_path \in CallPaths
    /\ self_schema \in {NoSchema, Schema([k \in {"numbers"} |-> Field("list[int]", VMissing)])}
    /\ path \in CallPaths
    /\ params \in CallParams
    /\ search_git_root \in BOOLEAN
    /\ search_recursive \in BOOLEAN
    /\ Called

NextCalls ==
    \/ ResolveNone
    \/ ResolveAbsolute
    \/ ProbeLocal
    \/ ProbeGitRoot
    \/ RecursiveStep
    \/ RaiseNotFound
    \/ ParseOverrides
    \/ LoadTree
    \/ MergeAndReturn
    \/ CallAgain

SpecCalls == InitCalls /\ [][NextCalls]_vars

\* ------------------------------------------------------------- Pipeline
\* the largest value an input or a configuration entry holds
MaxValue == 2

InputKeys == {"numbers", "method", "factor"}

ConfigKeys == {"method", "factor"}

\* mutant of FilterInputs: the inputs are passed on as they came
FilterInputsKeepsAll(driver_cfg, raw) ==
    IF ~raw.some \/ DOMAIN raw.items = {} THEN NoDict ELSE raw

\* pipeline.py lines 102-112, _filter_inputs(driver, raw_inputs)
FilterInputs(driver_cfg, raw) ==
    IF ~raw.some \/ DOMAIN raw.items = {} THEN NoDict
    ELSE Dict([k \in { key \in DOMAIN raw.items : key \notin DOMAIN driver_cfg } |->
                 raw.items[k]])

\* lines 132-134 and alike: build the driver, filter, call the driver's method
CallDriver(method) ==
    /\ entry_point = "none"
    /\ entry_point' = method
    /\ driver_inputs' = [called |-> TRUE, inputs |-> FilterInputs(driver_config, raw_inputs)]
    /\ UNCHANGED <<raw_inputs, driver_config>>
    /\ UNCHANGED <<Inputs, resolveVars, composeVars, appVars>>

\* pipeline.py lines 114-139
Execute == CallDriver("execute")

\* lines 141-168
ExportExecution == CallDriver("export_execution")

\* lines 170-194
ValidateExecution == CallDriver("validate_execution")

\* lines 196-235
VisualizeExecution == CallDriver("visualize_execution")

\* the composer's load_config is not being run
NotLoading ==
    /\ cwd = << >>
    /\ present = {}
    /\ tree = Missing
    /\ git_toplevel = None
    /\ self_config_path = None
    /\ self_schema = NoSchema
    /\ path = None
    /\ params = ParamsNone
    /\ search_git_root = FALSE
    /\ search_recursive = FALSE
    /\ calls = 0
    /\ first = NoCall
    /\ pc = "idle"
    /\ current_dir = cwd
    /\ probes = << >>
    /\ git_lookup = "not called"
    /\ config_path = None
    /\ params_cfg = EmptyMap
    /\ composed = EmptyMap
    /\ result = EmptyMap
    /\ raised = NoError

\* a Pipeline whose driver has any configuration, about to be called with
\* any inputs: None, {} or a dict
InitPipeline ==
    /\ NotLoading
    /\ NoCommandLine
    /\ entry_point = "none"
    /\ \/ raw_inputs = NoDict
       \/ \E S \in SUBSET InputKeys : \E f \in [S -> 1..MaxValue] : raw_inputs = Dict(f)
    /\ \E T \in SUBSET ConfigKeys : driver_config \in [T -> 1..MaxValue]
    /\ driver_inputs = NotCalled

NextPipeline ==
    \/ Execute
    \/ ExportExecution
    \/ ValidateExecution
    \/ VisualizeExecution

SpecPipeline == InitPipeline /\ [][NextPipeline]_vars

\* ------------------------------------------------------------ AppContext
\* the AppContext.load_config calls made on one context at most
MaxLoads == 3

\* Python binds the keywords of the call at context.py lines 50-56 to the
\* parameters of the composer's load_config
ComposerBinds == ContextCallKeywords \subseteq composer_keywords

\* what self._composer.load_config(...) may do: raise TypeError when a keyword
\* is not a parameter of it, and otherwise return a configuration or raise
ComposerOutcomes ==
    IF ~ComposerBinds
    THEN { Loaded(UnexpectedKeyword(k), VNull) : k \in ContextCallKeywords \ composer_keywords }
    ELSE { Loaded(NoError, c) : c \in Configs } \cup { Loaded(Failure("load_config"), VNull) }

\* the call at context.py lines 50-56
ComposerCall(ctx, ps) ==
    [directory |-> ctx.config_directory, name |-> ctx.config_name, params |-> ps,
     search_git_root |-> ctx.search_git_root, search_recursive |-> ctx.search_recursive]

\* mutant of CacheEmpty: an empty configuration counts as no cache
CacheEmptyWhenFalsy(ctx) == ctx.cached_config \in {VNull, EmptyMap}

\* context.py line 49: `self._cached_config is None`
CacheEmpty(ctx) == ctx.cached_config = VNull

\* context.py lines 49-57, AppContext.load_config(ps), out being what the
\* composer does if it is called: the outcome of the call
LoadConfigOutcome(out) ==
    IF CacheEmpty(context) THEN out ELSE Loaded(NoError, context.cached_config)

\* and its effect on the context and the composer
LoadConfigEffect(ps, out) ==
    IF CacheEmpty(context)
    THEN /\ composer_calls' = Append(composer_calls, ComposerCall(context, ps))
         /\ context' = IF out.raised = NoError
                       THEN [context EXCEPT !.cached_config = out.value]
                       ELSE context
    ELSE UNCHANGED <<composer_calls, context>>

\* a command or a plugin calls context.load_config(ps)
ContextLoadConfig ==
    /\ context.made
    /\ loads < MaxLoads
    /\ \E ps \in CliParams : \E out \in ComposerOutcomes :
          /\ LoadConfigEffect(ps, out)
          /\ last' = LoadConfigOutcome(out)
    /\ loads' = loads + 1
    /\ UNCHANGED <<argv, composer_keywords, project, cli_pc, config_local,
                   pipelines_local, log, exit_code, cli_raised>>
    /\ UNCHANGED <<Inputs, resolveVars, composeVars, pipelineVars>>

\* the composers an AppContext may be given: a HamiltonComposer, or an object
\* whose load_config takes the keywords the context passes
ComposerKinds == {LoadConfigParameters, ContextCallKeywords}

\* an AppContext made as AppContext(name=..., composer=..., logger=...)
InitContext ==
    /\ NotLoading
    /\ NoPipeline
    /\ argv = [via |-> "none", command |-> "none", pipeline_name |-> "",
               params |-> << >>, config_file |-> None,
               search_git_root |-> FALSE, search_recursive |-> FALSE]
    /\ composer_keywords \in ComposerKinds
    /\ project = [n \in {} |-> Pipeline(TRUE)]
    /\ context = AppContext(None, None, FALSE, FALSE)
    /\ cli_pc = "none"
    /\ config_local = VNull
    /\ pipelines_local = NoPipelines
    /\ log = << >>
    /\ composer_calls = << >>
    /\ last = Loaded(NoError, VNull)
    /\ loads = 0
    /\ exit_code = 0
    /\ cli_raised = NoError

NextContext == ContextLoadConfig

SpecContext == InitContext /\ [][NextContext]_vars

\* ---------------------------------------------------------- command line
\* a call a command makes, with the arguments it passes
Call(op, ps, name, config, pipelines) ==
    [op |-> op, params |-> ps, name |-> name, config |-> config, pipelines |-> pipelines]

\* click: a UsageError such as BadParameter exits with 2, any other
\* exception with 1, a command that returns with 0
ExitCode(e) ==
    IF e = NoError THEN 0 ELSE IF e.type = "BadParameter" THEN 2 ELSE 1

\* the command line ends, with the exception e or, e being NoError, normally
ExitWith(e) ==
    /\ cli_raised' = e
    /\ exit_code' = ExitCode(e)
    /\ cli_pc' = "exit"

\* Python binds the keywords of a call of AppContext(...) to the parameters of
\* AppContext.__init__, context.py lines 16-35
NewAppContext(keywords, recursive, git_root) ==
    IF keywords \subseteq AppContextParameters
    THEN Loaded(NoError, AppContext(None, None, recursive, git_root))
    ELSE Loaded(UnexpectedKeyword(CHOOSE k \in keywords \ AppContextParameters : TRUE),
                NoContext)

\* factory.py lines 59-78: the callback of the main group
Main ==
    /\ cli_pc = "main"
    /\ LET made == NewAppContext(MainKeywords, argv.search_recursive, argv.search_git_root) IN
       IF made.raised # NoError
       THEN /\ ExitWith(made.raised)
            /\ UNCHANGED context
       ELSE /\ context' = made.value
            /\ cli_pc' = "command"
            /\ UNCHANGED <<exit_code, cli_raised>>
    /\ UNCHANGED <<argv, composer_keywords, project, config_local, pipelines_local,
                   log, composer_calls, last, loads>>
    /\ UNCHANGED <<Inputs, resolveVars, composeVars, pipelineVars>>

\* config = context.load_config(params), the first statement of a command
CommandLoadConfig(cmd) ==
    /\ cli_pc = "command"
    /\ argv.command = cmd
    /\ \E out \in ComposerOutcomes :
          /\ LoadConfigEffect(argv.params, out)
          /\ last' = LoadConfigOutcome(out)
          /\ IF LoadConfigOutcome(out).raised # NoError
             THEN /\ ExitWith(LoadConfigOutcome(out).raised)
                  /\ UNCHANGED config_local
             ELSE /\ config_local' = LoadConfigOutcome(out).value
                  /\ cli_pc' = "find"
                  /\ UNCHANGED <<exit_code, cli_raised>>
    /\ log' = Append(log, Call("load_config", argv.params, "", VNull, NoPipelines.pipelines))
    /\ loads' = loads + 1
    /\ UNCHANGED <<argv, composer_keywords, project, pipelines_local>>
    /\ UNCHANGED <<Inputs, resolveVars, composeVars, pipelineVars>>

\* pipelines = context.find_pipelines(config): context.py lines 59-61 and
\* composer.py lines 182-205, the pipeline function returning or raising
CommandFindPipelines(cmd, then) ==
    /\ cli_pc = "find"
    /\ argv.command = cmd
    /\ log' = Append(log, Call("find_pipelines", << >>, "", config_local, NoPipelines.pipelines))
    /\ \/ /\ pipelines_local' = Found(project)
          /\ cli_pc' = then
          /\ UNCHANGED <<exit_code, cli_raised>>
       \/ /\ ExitWith(Failure("find_pipelines"))
          /\ UNCHANGED pipelines_local
    /\ UNCHANGED <<argv, composer_keywords, project, context, config_local,
                   composer_calls, last, loads>>
    /\ UNCHANGED <<Inputs, resolveVars, composeVars, pipelineVars>>

\* run.py line 34
RunLoadConfig == CommandLoadConfig("run")

\* run.py line 35
RunFindPipelines == CommandFindPipelines("run", "lookup")

\* mutant of RunLookup: the check of pipeline.public is missing
RunLookupSkipsPublicCheck ==
    /\ cli_pc = "lookup"
    /\ IF argv.pipeline_name \notin DOMAIN pipelines_local.pipelines
       THEN ExitWith(BadParameter("not found", argv.pipeline_name))
       ELSE /\ cli_pc' = "execute"
            /\ UNCHANGED <<exit_code, cli_raised>>
    /\ UNCHANGED <<argv, composer_keywords, project, context, config_local,
                   pipelines_local, log, composer_calls, last, loads>>
    /\ UNCHANGED <<Inputs, resolveVars, composeVars, pipelineVars>>

\* run.py lines 36-42
RunLookup ==
    /\ cli_pc = "lookup"
    /\ IF argv.pipeline_name \notin DOMAIN pipelines_local.pipelines
       THEN ExitWith(BadParameter("not found", argv.pipeline_name))
       ELSE IF ~pipelines_local.pipelines[argv.pipeline_name].public
       THEN ExitWith(BadParameter("private", argv.pipeline_name))
       ELSE /\ cli_pc' = "execute"
            /\ UNCHANGED <<exit_code, cli_raised>>
    /\ UNCHANGED <<argv, composer_keywords, project, context, config_local,
                   pipelines_local, log, composer_calls, last, loads>>
    /\ UNCHANGED <<Inputs, resolveVars, composeVars, pipelineVars>>

\* run.py line 43: pipeline.execute(inputs=config), returning or raising
RunExecute ==
    /\ cli_pc = "execute"
    /\ log' = Append(log, Call("execute", << >>, argv.pipeline_name, config_local,
                               NoPipelines.pipelines))
    /\ \/ ExitWith(NoError)
       \/ ExitWith(Failure("execute"))
    /\ UNCHANGED <<argv, composer_keywords, project, context, config_local,
                   pipelines_local, composer_calls, last, loads>>
    /\ UNCHANGED <<Inputs, resolveVars, composeVars, pipelineVars>>

\* shell.py line 26
ShellLoadConfig == CommandLoadConfig("shell")

\* mutant of ShellFindPipelines: a failure of find_pipelines is swallowed and
\* the shell is launched without pipelines
ShellFindPipelinesSwallowsFailure ==
    /\ cli_pc = "find"
    /\ argv.command = "shell"
    /\ log' = Append(log, Call("find_pipelines", << >>, "", config_local, NoPipelines.pipelines))
    /\ \/ pipelines_local' = Found(project)
       \/ pipelines_local' = Found(NoPipelines.pipelines)
    /\ cli_pc' = "launch"
    /\ UNCHANGED <<exit_code, cli_raised>>
    /\ UNCHANGED <<argv, composer_keywords, project, context, config_local,
                   composer_calls, last, loads>>
    /\ UNCHANGED <<Inputs, resolveVars, composeVars, pipelineVars>>

\* shell.py line 27
ShellFindPipelines == CommandFindPipelines("shell", "launch")

\* shell.py line 28: launch_shell(config=config, pipelines=pipelines),
\* returning when the shell is left, or raising
ShellLaunch ==
    /\ cli_pc = "launch"
    /\ log' = Append(log, Call("launch_shell", << >>, "", config_local,
                               pipelines_local.pipelines))
    /\ \/ ExitWith(NoError)
       \/ ExitWith(Failure("launch_shell"))
    /\ UNCHANGED <<argv, composer_keywords, project, context, config_local,
                   pipelines_local, composer_calls, last, loads>>
    /\ UNCHANGED <<Inputs, resolveVars, composeVars, pipelineVars>>

\* the command lines of the model
CommandLines ==
    { [via |-> v, command |-> c, pipeline_name |-> n, params |-> ps, config_file |-> f,
       search_git_root |-> g, search_recursive |-> r] :
        v \in {"group", "object"}, c \in {"run", "shell"}, n \in PipelineNames,
        ps \in CliParams, f \in {None, Some(FALSE, <<"parameters.yaml">>)},
        g \in BOOLEAN, r \in BOOLEAN }

\* a command is invoked: through the group build_cli returns, whose callback
\* main makes the context from the group's options, or by itself with an
\* AppContext given as the click object
InitCli ==
    /\ NotLoading
    /\ NoPipeline
    /\ argv \in CommandLines
    /\ (argv.command = "shell") => argv.pipeline_name = "simple_pipeline"
    /\ (argv.via = "object") =>
          /\ argv.config_file = None
          /\ ~argv.search_git_root /\ ~argv.search_recursive
    /\ composer_keywords \in ComposerKinds
    /\ project \in Projects
    /\ context = IF argv.via = "group" THEN NoContext
                 ELSE AppContext(None, None, FALSE, FALSE)
    /\ cli_pc = IF argv.via = "group" THEN "main" ELSE "command"
    /\ config_local = VNull
    /\ pipelines_local = NoPipelines
    /\ log = << >>
    /\ composer_calls = << >>
    /\ last = Loaded(NoError, VNull)
    /\ loads = 0
    /\ exit_code = 0
    /\ cli_raised = NoError

NextCli ==
    \/ Main
    \/ RunLoadConfig
    \/ RunFindPipelines
    \/ RunLookup
    \/ RunExecute
    \/ ShellLoadConfig
    \/ ShellFindPipelines
    \/ ShellLaunch

SpecCli == InitCli /\ [][NextCli]_vars

\* ====================================================== path resolution
\* _resolve_config_path has returned or raised
Resolved == pc \notin {"resolve", "git", "recursive"}

Returned == Resolved /\ pc # "raised"

Relative == InitialPath.some /\ ~InitialPath.abs

Absolute == InitialPath.some /\ InitialPath.abs

LocalCandidate == JoinPath(cwd, PathOf(InitialPath))

GitCandidate == JoinPath(git_toplevel.segs, PathOf(InitialPath))

LocalHit == Exists(present, LocalCandidate)

GitHit == search_git_root /\ git_toplevel.some /\ Exists(present, GitCandidate)

\* the ancestors-or-self of the working directory holding the location
HoldingAncestors ==
    { a \in AncestorsOf(cwd) : Exists(present, JoinPath(a, PathOf(InitialPath))) }

LastProbe == probes[Len(probes)]

\* C1: for a relative location the probes are made in the order local, git
\* root (only with search_git_root), recursive (only with search_recursive);
\* no probe follows one that found the location, so the result is the
\* candidate of the first strategy that finds it: a local hit wins with one
\* probe, a git-root hit wins with two, even over a nearer ancestor; a git
\* miss still lets the recursive search start at the working directory.
C1_StrategiesInOrderFirstHitWins ==
    Relative =>
        /\ \A i \in 1..Len(probes) :
              /\ (i = 1) => probes[i] = Probe("local", LocalCandidate)
              /\ (i > 1) => probes[i].strategy \in {"git", "recursive"}
              /\ (probes[i].strategy = "git") =>
                    i = 2 /\ search_git_root /\ probes[i].path = GitCandidate
              /\ (probes[i].strategy = "recursive") => search_recursive
              /\ (i < Len(probes)) => ~Exists(present, probes[i].path)
        /\ Returned =>
              /\ probes # << >>
              /\ Exists(present, LastProbe.path)
              /\ config_path = Resolve(LastProbe.path)
        /\ (Resolved /\ LocalHit) =>
              /\ pc # "raised"
              /\ config_path = Resolve(LocalCandidate)
              /\ Len(probes) = 1
        /\ (Resolved /\ ~LocalHit /\ GitHit) =>
              /\ pc # "raised"
              /\ config_path = Resolve(GitCandidate)
              /\ Len(probes) = 2
        /\ (Resolved /\ ~LocalHit /\ ~GitHit /\ search_git_root
              /\ search_recursive /\ cwd # << >>) =>
              \E i \in 1..Len(probes) :
                  probes[i] = Probe("recursive", LocalCandidate)

\* a git-root hit has won over a nearer ancestor that holds the location too
C1_Witness ==
    /\ Returned /\ Relative /\ ~LocalHit /\ GitHit /\ search_recursive
    /\ \E a \in HoldingAncestors : Len(a) > Len(git_toplevel.segs)
    /\ config_path = Resolve(GitCandidate)

\* C2: with search_recursive and the earlier strategies missing, the result
\* is the candidate at the nearest ancestor-or-self of the working directory
\* that holds the location, the filesystem root included, and resolution
\* fails only when no level holds it.
C2_RecursiveSearchReachesRoot ==
    (Resolved /\ Relative /\ search_recursive /\ ~LocalHit /\ ~GitHit) =>
        IF HoldingAncestors = {} THEN pc = "raised"
        ELSE /\ pc # "raised"
             /\ \E a \in HoldingAncestors :
                  /\ \A b \in HoldingAncestors : Len(b) <= Len(a)
                  /\ config_path = Resolve(JoinPath(a, PathOf(InitialPath)))

HasDotDot(p) == \E i \in 1..Len(p.segs) : p.segs[i] = ".."

C4_AbsoluteMissingRaisesWithoutSearch ==
    (Absolute /\ ~Exists(present, PathOf(InitialPath))) =>
        /\ (pc # "resolve") =>
              /\ pc = "raised"
              /\ raised.type = "FileNotFoundError"
              /\ probes = <<Probe("absolute", PathOf(InitialPath))>>
        /\ git_lookup = "not called"
        /\ \A i \in 1..Len(probes) : probes[i].strategy = "absolute"

\* a missing absolute location has raised with both search flags set, in a
\* repository, although the working directory holds the relative name
C4_Witness ==
    /\ pc = "raised" /\ Absolute
    /\ search_git_root /\ search_recursive /\ git_toplevel.some
    /\ HoldingAncestors # {}
    /\ raised.type = "FileNotFoundError"

NoLocation == ~path.some /\ ~self_config_path.some

\* load_config has returned or raised
Ended == pc \in {"done", "raised"}

OverrideX2 == Params(<<Entry(FALSE, <<"x">>, TRUE, VInt(2))>>)

TreeLoaded == pc = "merge"

Loadable(node) == node.kind \in {"dir", "file"}

LoadableNames(node) == { n \in DOMAIN node.entries : Loadable(node.entries[n]) }

SubdirNames(node) == { n \in DOMAIN node.entries : node.entries[n].kind = "dir" }

FileNames(node) == { n \in DOMAIN node.entries : node.entries[n].kind = "file" }

\* the key an entry is loaded under
KeyOf(n, node) == IF node.kind = "dir" THEN NameStr(n) ELSE Stem(n)

RECURSIVE MirrorsDirectory(_, _)
\* value has one key per subdirectory and per file of the directory node and
\* no other, a subdirectory's key bound to a value that mirrors it in turn, a
\* mapping file's key bound to the mapping
MirrorsDirectory(value, node) ==
    /\ value.t = "map"
    /\ DOMAIN value.v = { KeyOf(n, node.entries[n]) : n \in LoadableNames(node) }
    /\ Cardinality(DOMAIN value.v) = Cardinality(LoadableNames(node))
    /\ \A n \in SubdirNames(node) :
          MirrorsDirectory(value.v[NameStr(n)], node.entries[n])
    /\ \A n \in FileNames(node) :
          (node.entries[n].doc.t = "map") => value.v[Stem(n)] = node.entries[n].doc

ExampleTree ==
    VMap([k \in {"a", "b"} |->
            IF k = "a" THEN VMap([j \in {"x"} |-> VInt(1)])
            ELSE VMap([j \in {"c"} |-> VMap([i \in {"y"} |-> VInt(2)])])])

\* C8: a loaded directory is a mapping with exactly one key per subdirectory
\* (its name, bound to the load of the subdirectory) and one per file (its
\* stem, bound to the parsed content), at every depth, and no other key;
\* a.yaml (x: 1) with b/c.yaml (y: 2) loads as {a: {x: 1}, b: {c: {y: 2}}}.
C8_DirectoryLoadMirrorsTree ==
    /\ (TreeLoaded /\ tree.kind = "dir") => MirrorsDirectory(composed, tree)
    /\ (pc # "load" /\ tree = ExampleDir) => (TreeLoaded /\ composed = ExampleTree)

C8_Witness == TreeLoaded /\ tree = ExampleDir /\ composed = ExampleTree

\* the (directory, key) pairs of the tree at which two entries collide
RECURSIVE Collisions(_, _)
Collisions(p, node) ==
    IF node.kind # "dir" THEN {}
    ELSE { [path |-> p, key |-> KeyOf(n, node.entries[n])] :
             n \in { n \in LoadableNames(node) :
                       \E m \in LoadableNames(node) \ {n} :
                          KeyOf(m, node.entries[m]) = KeyOf(n, node.entries[n]) } }
         \cup UNION { Collisions(Child(p, n), node.entries[n]) : n \in SubdirNames(node) }

\* the files of the tree that cannot be loaded
RECURSIVE BrokenFiles(_, _)
BrokenFiles(p, node) ==
    IF node.kind # "dir" THEN {}
    ELSE { Child(p, n) : n \in { n \in FileNames(node) :
                 node.entries[n].doc.t \in {"malformed", "unreadable", "unsupported"} } }
         \cup UNION { BrokenFiles(Child(p, n), node.entries[n]) : n \in SubdirNames(node) }

RaisedDuplicateKey ==
    /\ pc = "raised"
    /\ raised.type = "ValueError"
    /\ raised.what = "duplicate key"
    /\ [path |-> raised.path, key |-> raised.key] \in Collisions(config_path, tree)

\* C9 as stated: whenever two entries of one directory derive the same key
\* the load ends with the DuplicateKey error
C9_CollisionRaisesDuplicateKey ==
    (pc # "load" /\ Collisions(config_path, tree) # {}) => RaisedDuplicateKey

\* C9: whenever two entries of one directory, at any depth, derive the same
\* key the load fails and returns no tree; the error is the ValueError naming
\* a colliding key and its directory, unless a file that cannot be loaded was
\* met first, and then it is that file's error; with every file loadable it
\* is always the DuplicateKey error.
C9_CollisionFailsLoad ==
    (pc # "load" /\ Collisions(config_path, tree) # {}) =>
        /\ pc = "raised"
        /\ composed = EmptyMap
        /\ \/ RaisedDuplicateKey
           \/ /\ raised.what \in {"failed to load", "uncaught"}
              /\ raised.path \in BrokenFiles(config_path, tree)
        /\ (BrokenFiles(config_path, tree) = {}) => RaisedDuplicateKey

\* foo.yaml beside foo/ at the top level, and the same one level down
C9_Witness ==
    /\ RaisedDuplicateKey
    /\ raised.key = "foo"
    /\ \E c \in Collisions(config_path, tree) : c.path = config_path
    /\ \E c \in Collisions(config_path, tree) : c.path # config_path

IsNullWrapper(value) ==
    /\ value.t = "map"
    /\ Cardinality(DOMAIN value.v) = 1
    /\ \A k \in DOMAIN value.v : value.v[k] = VNull

RECURSIVE NonMappingsBoundAsIs(_, _)
\* every file of the directory whose document is a sequence, a scalar or
\* empty is bound to the document's value
NonMappingsBoundAsIs(value, node) ==
    /\ \A n \in FileNames(node) :
          (node.entries[n].doc.t \in {"seq", "str", "int", "null"}) =>
              value.v[Stem(n)] = node.entries[n].doc
    /\ \A n \in SubdirNames(node) :
          NonMappingsBoundAsIs(value.v[NameStr(n)], node.entries[n])

RECURSIVE NonMappingsUnwrapped(_, _)
\* the same, an empty document being bound to the empty mapping
NonMappingsUnwrapped(value, node) ==
    /\ \A n \in FileNames(node) :
          LET doc == node.entries[n].doc
              bound == value.v[Stem(n)]
          IN /\ (doc.t \in {"seq", "str", "int"}) => bound = doc
             /\ (doc.t = "null") => bound = EmptyMap
             /\ (doc.t \in {"seq", "str", "int", "null"}) => ~IsNullWrapper(bound)
    /\ \A n \in SubdirNames(node) :
          NonMappingsUnwrapped(value.v[NameStr(n)], node.entries[n])

NumbersDir == Dir([n \in {<<"numbers", "yaml">>} |-> File(Numbers)])

\* C10 as stated: a sequence, scalar or empty document is bound to its value
C10_NonMappingBoundToItsValue ==
    (TreeLoaded /\ tree.kind = "dir") => NonMappingsBoundAsIs(composed, tree)

\* C10: in a directory load a file whose document is a sequence or a bare
\* scalar is bound under its key to that value itself, and an empty document
\* to the empty mapping; none is bound to a single-key mapping with a null
\* value; numbers.yaml holding [1, 2, 3] loads as {numbers: [1, 2, 3]}.
C10_NonMappingNeverNullWrapped ==
    /\ (TreeLoaded /\ tree.kind = "dir") => NonMappingsUnwrapped(composed, tree)
    /\ (pc # "load" /\ tree = NumbersDir) =>
          (TreeLoaded /\ composed = One("numbers", Numbers))

\* a bare string and a sequence have been loaded side by side
C10_Witness ==
    /\ TreeLoaded /\ tree.kind = "dir"
    /\ \E n \in FileNames(tree) : tree.entries[n].doc = VStr("hello")
                                   /\ composed.v[Stem(n)] = VStr("hello")
    /\ \E n \in FileNames(tree) : tree.entries[n].doc = Numbers
                                   /\ composed.v[Stem(n)] = Numbers

\* ====================================================== parse failures
\* C11: in a directory load a file of an invalid top-level object type is
\* loaded by yaml.safe_load instead, and every other file that cannot be
\* parsed or read ends the load with the ValueError naming that file, no
\* tree being returned.
C11_ParseFailureRaisesInvalidFormat ==
    (pc # "load" /\ tree.kind = "dir") =>
        /\ TreeLoaded => NonMappingsUnwrapped(composed, tree)
        /\ (BrokenFiles(config_path, tree) # {}) =>
              /\ pc = "raised"
              /\ composed = EmptyMap
              /\ \/ RaisedDuplicateKey
                 \/ /\ raised.type = "ValueError"
                    /\ raised.what = "failed to load"
                    /\ raised.path \in BrokenFiles(config_path, tree)

\* ====================================================== single file
NoParams == params \in {ParamsNone, Params(<< >>)}

IsDocument(doc) == doc.t \in {"map", "seq", "int", "str", "null"}

\* C12: load_config on a single file, without overrides or schema, succeeds
\* whatever the top-level type of the document, a mapping being returned as
\* it is, and fails with the ValueError naming the file only when the file
\* cannot be parsed.
C12_SingleFileAcceptsAnyDocument ==
    (Ended /\ config_path.some /\ tree.kind = "file" /\ NoParams /\ ~self_schema.some) =>
        IF IsDocument(tree.doc)
        THEN /\ pc = "done"
             /\ (tree.doc.t = "map") => result = tree.doc
        ELSE /\ pc = "raised"
             /\ raised = FailedToLoad(config_path)

\* ====================================================== precedence
Absent == [t |-> "absent", v |-> 0]

\* the node of a tree at a key path, Absent when the path leaves the tree
RECURSIVE At(_, _)
At(value, segs) ==
    IF segs = << >> THEN value
    ELSE IF value.t = "map" /\ segs[1] \in DOMAIN value.v
    THEN At(value.v[segs[1]], Tail(segs))
    ELSE Absent

\* the paths of all nodes of a tree
RECURSIVE Paths(_)
Paths(value) ==
    {<< >>} \cup
    (IF value.t = "map"
     THEN UNION { { <<k>> \o q : q \in Paths(value.v[k]) } : k \in DOMAIN value.v }
     ELSE {})

\* the paths of the nodes that are no mappings
LeafPaths(value) == { q \in Paths(value) : At(value, q).t # "map" }

\* the value the schema makes of a value given for a path
Validated(q, value) ==
    IF self_schema.some /\ Len(q) = 1 /\ q[1] \in DOMAIN self_schema.fields
    THEN Validate(self_schema.fields[q[1]].type, q[1], value).value
    ELSE value

ProperPrefixes(q) == { SubSeq(q, 1, n) : n \in 0..(Len(q) - 1) }

\* C13: in the configuration load_config returns, every path the overrides
\* set holds the overrides' value; every other path the loaded tree sets
\* holds the tree's value; and every remaining path holds the schema's
\* default: schema defaults < loaded tree < overrides.
C13_OverridesBeatFileBeatsDefaults ==
    (pc = "done") =>
        /\ \A q \in LeafPaths(params_cfg) :
              At(result, q) = Validated(q, At(params_cfg, q))
        /\ \A q \in LeafPaths(composed) :
              (\A r \in ProperPrefixes(q) \cup {q} :
                    r # << >> => At(params_cfg, r) = Absent)
                 => At(result, q) = Validated(q, At(composed, q))
        /\ \A q \in LeafPaths(result) :
              (At(params_cfg, q) = Absent /\ At(composed, q) = Absent)
                 => /\ self_schema.some
                    /\ At(result, q) = At(Structured(self_schema), q)

\* a default, a file value and an override have each decided a result
C13_Witness ==
    /\ pc = "done"
    /\ self_schema = Schema([k \in {"x"} |-> Field("int", VInt(0))])
    /\ composed = X1
    /\ params_cfg = One("x", VInt(2))
    /\ result = One("x", VInt(2))

\* ====================================================== the + marker
ABD == VMap([k \in {"a", "b", "d"} |->
               CASE k = "a" -> VInt(1)
                 [] k = "b" -> One("c", VInt(3))
                 [] k = "d" -> VInt(4)])

\* C14: an override +key.path=value inserts the key without the marker:
\* {a: 1, b: {c: 2}} with ["b.c=3", "+d=4"] gives {a: 1, b: {c: 3}, d: 4},
\* and ["+key=value"] with no configuration source gives {key: value}.
C14_PlusInsertsKeyWithoutMarker ==
    (pc = "done" /\ ~self_schema.some /\ params.some) =>
        /\ \A i \in DOMAIN params.items :
              params.items[i].plus =>
                 /\ At(result, DotlistKey(params.items[i])) = Absent
                 /\ At(result, params.items[i].segs) # Absent
        /\ (tree = File(AB) /\ config_path.some
              /\ params.items = <<Entry(FALSE, <<"b", "c">>, TRUE, VInt(3)),
                                  Entry(TRUE, <<"d">>, TRUE, VInt(4))>>)
              => result = ABD
        /\ (~config_path.some
              /\ params.items = <<Entry(TRUE, <<"key">>, TRUE, VStr("value"))>>)
              => result = One("key", VStr("value"))

\* ====================================================== new keys
\* what the resolved path loads as
BaseTree == LoadConfigFromPath(config_path, tree)

BaseLoaded == BaseTree.raised = NoError /\ BaseTree.value.t = "map"

\* an override key.path=value, without the marker, of a path the loaded tree
\* does not hold
NewKey(e) ==
    /\ ~e.plus /\ e.has_eq /\ e.segs # <<"">>
    /\ BaseLoaded
    /\ At(BaseTree.value, e.segs) = Absent

NumbersOverride ==
    Entry(FALSE, <<"numbers">>, TRUE, VSeq(<<VInt(2), VInt(3), VInt(4)>>))

\* C15 as stated: an override without the marker of a path the loaded tree
\* does not hold, passed alone, makes load_config fail with MissingKey
C15_NewKeyWithoutPlusRaisesMissingKey ==
    (Ended /\ params.some /\ Len(params.items) = 1 /\ NewKey(params.items[1])) =>
        /\ pc = "raised"
        /\ raised.type = "MissingKey"

\* C15: an override key.path=value without the marker whose path the loaded
\* tree does not hold is no error, the key is added: without a schema, when
\* it is the only override the returned tree holds its value at that path,
\* and load_config always returns when the path is one top-level key; when it
\* is the last override the returned tree holds the path; ["numbers=[2,3,4]"]
\* with no location returns {numbers: [2, 3, 4]}.
C15_NewKeyWithoutPlusIsAdded ==
    (Ended /\ params.some /\ params.items # << >> /\ ~self_schema.some) =>
        LET e == params.items[Len(params.items)] IN
        /\ (NewKey(e) /\ pc = "done") => At(result, e.segs) # Absent
        /\ (NewKey(e) /\ Len(params.items) = 1) =>
              /\ (pc = "done") => At(result, e.segs) = e.val
              /\ (Len(e.segs) = 1) => pc = "done"
              /\ raised.type \notin {"MissingKey", "ConfigKeyError"}
        /\ (~config_path.some /\ params.items = <<NumbersOverride>>) =>
              /\ pc = "done"
              /\ result = One("numbers", NumbersOverride.val)

C15_Witness ==
    /\ pc = "done" /\ ~self_schema.some /\ ~config_path.some
    /\ params.items = <<NumbersOverride>>
    /\ result = One("numbers", VSeq(<<VInt(2), VInt(3), VInt(4)>>))

\* ====================================================== malformed overrides
Malformed(e) == ~e.has_eq \/ e.segs[1] = ""

\* C16: an override with no "=" or with an empty key makes load_config fail
\* with a ParseError naming the entry, also where the location loads well
\* and there is no schema; nothing is returned
C16_MalformedOverrideRaisesParseError ==
    (Ended /\ BaseLoaded /\ ~self_schema.some /\ params.some
       /\ \E i \in DOMAIN params.items : Malformed(params.items[i])) =>
        /\ pc = "raised"
        /\ raised.type = "ParseError"
        /\ result = EmptyMap

\* ====================================================== override order
\* the overrides applied as successive merges, one entry at a time
RECURSIVE SuccessiveMerges(_, _)
SuccessiveMerges(base, items) ==
    IF items = << >> THEN Loaded(NoError, base)
    ELSE LET one == FromDotlist(<<items[1]>>) IN
         IF one.raised # NoError THEN one
         ELSE LET merged == MergeConfigs(base, one.value) IN
              IF merged.raised # NoError THEN merged
              ELSE SuccessiveMerges(merged.value, Tail(items))

\* entry j repeats the path of an earlier entry and no later entry touches
\* that path
LastOccurrence(items, j) ==
    /\ \E i \in 1..(j - 1) : DotlistKey(items[i]) = DotlistKey(items[j])
    /\ \A k \in (j + 1)..Len(items) :
          /\ DotlistKey(items[k]) \notin ProperPrefixes(DotlistKey(items[j]))
          /\ DotlistKey(items[j]) \notin ProperPrefixes(DotlistKey(items[k]))
          /\ DotlistKey(items[k]) # DotlistKey(items[j])

LastWins(items) ==
    \A j \in DOMAIN items :
        LastOccurrence(items, j) => At(result, DotlistKey(items[j])) = DotlistValue(items[j])

\* C17 as stated: the last occurrence of a path wins and the batch gives what
\* successive merges give
C17_BatchEqualsSuccessiveMerges ==
    (pc = "done" /\ ~self_schema.some /\ params.some /\ params.items # << >>) =>
        /\ LastWins(params.items)
        /\ SuccessiveMerges(composed, params.items) = Loaded(NoError, result)

\* no override value is a mapping, no override's path is a proper prefix of
\* another's, and no sequence is set where the loaded tree holds a mapping
Plain(items, base) ==
    /\ \A i \in DOMAIN items : DotlistValue(items[i]).t # "map"
    /\ \A i, j \in DOMAIN items :
          DotlistKey(items[i]) \notin ProperPrefixes(DotlistKey(items[j]))
    /\ \A i \in DOMAIN items :
          (DotlistValue(items[i]).t = "seq") => At(base, DotlistKey(items[i])).t # "map"

\* C17: among overrides that are plain, the last occurrence of a path wins,
\* and load_config returns what applying the overrides as successive merges
\* in the same order returns, and fails when those fail.
C17_PlainOverridesBatchEqualsSuccessive ==
    (Ended /\ ~self_schema.some /\ params.some /\ params.items # << >>
       /\ BaseTree.raised = NoError /\ Plain(params.items, BaseTree.value)) =>
        LET successive == SuccessiveMerges(BaseTree.value, params.items) IN
        /\ (pc = "done") <=> (successive.raised = NoError)
        /\ (pc = "done") => /\ result = successive.value
                            /\ LastWins(params.items)

\* x=1 then x=2 over a file holding x: 1
C17_Witness ==
    /\ pc = "done" /\ ~self_schema.some
    /\ tree = File(X1) /\ config_path.some
    /\ params.items = <<Entry(FALSE, <<"x">>, TRUE, VInt(1)),
                        Entry(FALSE, <<"x">>, TRUE, VInt(2))>>
    /\ result = One("x", VInt(2))

\* ====================================================== deep merge
\* the overrides as parsed
Parsed == ParseParams(params)

\* r is the deep merge of b into a: where both hold a mapping the keys of
\* both are kept; a node of b that does not meet mapping with mapping
\* replaces what a holds there; a node only a holds, in a mapping both hold,
\* is kept
DeepMerged(a, b, r) ==
    \A q \in Paths(a) \cup Paths(b) :
        LET x == At(a, q)
            y == At(b, q)
            z == At(r, q)
        IN
        /\ (x.t = "map" /\ y.t = "map") =>
              /\ z.t = "map"
              /\ DOMAIN z.v = (DOMAIN x.v) \cup (DOMAIN y.v)
        /\ (y # Absent /\ ~(x.t = "map" /\ y.t = "map")) => z = y
        /\ (y = Absent /\ x # Absent /\ q # << >>
              /\ At(b, SubSeq(q, 1, Len(q) - 1)).t = "map") => z = x

\* C18 as stated: the merge of the overrides into a loaded mapping always
\* succeeds, deep for mapping with mapping and replacing for every other
\* pair
C18_MergeDeepOnlyForMappings ==
    (Ended /\ ~self_schema.some /\ BaseLoaded /\ Parsed.raised = NoError) =>
        /\ pc = "done"
        /\ DeepMerged(BaseTree.value, Parsed.value, result)

\* a sequence and a mapping meet at one path of the two trees
SequenceMeetsMapping(a, b) ==
    \E q \in Paths(a) \cap Paths(b) :
        {At(a, q).t, At(b, q).t} = {"map", "seq"}

\* C18: the merge is deep for mapping with mapping, keeping the keys only one
\* side has, and the right operand replaces the left for every other pair, a
\* sequence being replaced wholesale by a sequence or a scalar; but where a
\* sequence meets a mapping, either way round, the merge raises TypeError
\* and nothing is returned.
C18_MergeDeepUnlessSequenceMeetsMapping ==
    (Ended /\ ~self_schema.some /\ BaseTree.raised = NoError /\ Parsed.raised = NoError) =>
        IF SequenceMeetsMapping(BaseTree.value, Parsed.value)
        THEN /\ pc = "raised"
             /\ raised.type = "TypeError"
             /\ result = EmptyMap
        ELSE /\ pc = "done"
             /\ DeepMerged(BaseTree.value, Parsed.value, result)

\* numbers: [1, 2, 3] overridden by numbers=[2,3,4]
C18_Witness ==
    /\ pc = "done" /\ ~self_schema.some
    /\ composed = One("numbers", Numbers)
    /\ params.items = <<NumbersOverride>>
    /\ result = One("numbers", VSeq(<<VInt(2), VInt(3), VInt(4)>>))

\* ====================================================== schema
NumbersSchema == Schema([k \in {"numbers"} |-> Field("list[int]", VMissing)])

\* the merge of line 159 has succeeded
Merged == MergeConfigs(BaseTree.value, Parsed.value)

SchemaApplied ==
    /\ Ended /\ self_schema.some
    /\ BaseTree.raised = NoError /\ Parsed.raised = NoError
    /\ Merged.raised = NoError

MissingNumbers == Err("MissingMandatoryValue", "schema", None, "numbers")

NoPlaceholder ==
    (pc = "done" /\ self_schema.some) =>
        \A k \in DOMAIN self_schema.fields :
            /\ result.v[k] \notin {VMissing, VNull}
            /\ (self_schema.fields[k].default = VMissing) => k \in DOMAIN Merged.value.v

DeclaredStrictness == "none"

UnknownKeys == (DOMAIN Merged.value.v) \ (DOMAIN self_schema.fields)

DeclaredKeysValid ==
    \A k \in (DOMAIN Merged.value.v) \cap (DOMAIN self_schema.fields) :
        Validate(self_schema.fields[k].type, k, Merged.value.v[k]).raised = NoError

FieldValue(k) ==
    IF k \in DOMAIN Merged.value.v
    THEN Validate(self_schema.fields[k].type, k, Merged.value.v[k]).value
    ELSE self_schema.fields[k].default

Chosen == IF path # None THEN path ELSE self_config_path

\* what the source a location names holds, in the filesystem of SpecCalls:
\* the absolute location is /conf, the relative one names <cwd>/conf
ContentOf(loc) ==
    IF loc.abs THEN One("numbers", Numbers) ELSE One("numbers", Numbers234)

\* C22: resolution uses the call's path whenever it is not None and the
\* constructor's config_path otherwise: with neither nothing is probed and
\* None is returned, otherwise the first probe is that of the location used;
\* and a call without overrides returns the content of the source that
\* location names, not the content of the constructor's source.
C22_CallPathOverridesConstructor ==
    /\ ~Chosen.some =>
          /\ probes = << >>
          /\ config_path = None
          /\ (pc = "raised") => raised.type # "FileNotFoundError"
    /\ Chosen.some =>
          /\ (pc # "resolve") => probes # << >>
          /\ (probes # << >>) =>
                probes[1] = IF Chosen.abs THEN Probe("absolute", PathOf(Chosen))
                            ELSE Probe("local", JoinPath(cwd, PathOf(Chosen)))
          /\ (pc = "done" /\ params = ParamsNone) => result = ContentOf(Chosen)

\* the constructor names /conf (numbers: [1, 2, 3]), the call names conf,
\* found in the working directory (numbers: [2, 3, 4])
C22_Witness ==
    /\ self_config_path = Some(TRUE, <<ConfName>>)
    /\ path = Some(FALSE, <<ConfName>>)
    /\ present = {<<ConfName>>, Chain \o <<ConfName>>}
    /\ params = ParamsNone
    /\ pc = "done"
    /\ result = One("numbers", Numbers234)

\* ====================================================== the composer's state
\* load_config has ended with the arguments of the first call
SameAsFirst == first.made /\ pc \in {"done", "raised"} /\ Arguments = first.arguments

\* C28: no step of load_config changes the composer's stored config_path or
\* schema, whether the call returns or raises, so that after any sequence of
\* calls they are the values given at construction; and a call that ends
\* with the arguments of the first call ends as the first call did, whatever
\* calls were made in between.
C28_LoadConfigLeavesComposerUnchanged ==
    [][/\ self_config_path' = self_config_path
       /\ self_schema' = self_schema
       /\ SameAsFirst' =>
             /\ pc' = first'.pc
             /\ result' = first'.result
             /\ raised' = first'.raised]_vars

\* a later call has repeated the first one after a call with other arguments
\* has been made, and returned
C28_Witness ==
    /\ SameAsFirst /\ calls > 2
    /\ pc = "done" /\ path.some /\ self_config_path.some /\ path # self_config_path
    /\ result = One("numbers", Numbers234)

\* ====================================================== single-key unwrap
\* OmegaConf.load succeeds on the file
Parses(doc) == OmegaConfLoad(doc).raised = "none"

\* the structured parse of a file, as a plain container
StructuredParse(doc) == ToContainer(OmegaConfLoad(doc).value)

\* the two conditions of the unwrap
UnwrapApplies(doc) ==
    /\ IsNullWrapper(StructuredParse(doc))
    /\ YamlSafeLoad(doc).t \notin {"map", "seq"}

RECURSIVE UnwrappedExactlyWhenDue(_, _)
\* every file of the directory that parses is bound to the plain re-read
\* value, which differs from its structured parse, when the unwrap applies,
\* and to its structured parse otherwise
UnwrappedExactlyWhenDue(value, node) ==
    /\ \A n \in FileNames(node) :
          LET doc == node.entries[n].doc
              bound == value.v[Stem(n)]
          IN Parses(doc) =>
                /\ (bound # StructuredParse(doc)) <=> UnwrapApplies(doc)
                /\ UnwrapApplies(doc) => bound = YamlSafeLoad(doc)
    /\ \A n \in SubdirNames(node) :
          UnwrappedExactlyWhenDue(value.v[NameStr(n)], node.entries[n])

FooNullDir == Dir([n \in {<<"foo", "yaml">>} |-> File(One("foo", VNull))])

\* C26: in a directory load the single-key unwrap replaces a file's value
\* exactly when its structured parse is a mapping of one key with a null
\* value and its plain re-read is neither a mapping nor a sequence; every
\* other file that parses keeps its structured parse: the document  foo:
\* loads as {foo: {foo: null}}.
C26_UnwrapExactlyForNullWrappedScalar ==
    /\ (TreeLoaded /\ tree.kind = "dir") => UnwrappedExactlyWhenDue(composed, tree)
    /\ (pc # "load" /\ tree = FooNullDir) =>
          (TreeLoaded /\ composed = One("foo", One("foo", VNull)))

\* a bare string has been unwrapped next to a genuine one-key null mapping
\* that was kept
C26_Witness ==
    /\ TreeLoaded /\ tree.kind = "dir"
    /\ \E n \in FileNames(tree) : /\ tree.entries[n].doc = VStr("hello")
                                   /\ StructuredParse(tree.entries[n].doc) = One("hello", VNull)
                                   /\ composed.v[Stem(n)] = VStr("hello")
    /\ \E n \in FileNames(tree) : /\ tree.entries[n].doc = One("foo", VNull)
                                   /\ composed.v[Stem(n)] = One("foo", VNull)

\* ====================================================== termination
\* the recursive search is in its loop before and after the step
StaysInLoop == pc = "recursive" /\ pc' = "recursive"

\* C30: path resolution always terminates: every step that stays in the
\* recursive search moves current_dir to a strictly shorter path, the search
\* never goes on at the root, and every call of _resolve_config_path ends,
\* by returning a path or None or by raising the not-found error.
C30_ResolutionTerminates ==
    /\ [][StaysInLoop => /\ Len(current_dir') < Len(current_dir)
                         /\ current_dir' = Parent(current_dir)]_vars
    /\ [](Resolved => \/ pc = "params"
                      \/ pc = "raised" /\ raised.type = "FileNotFoundError")
    /\ <>Resolved

\* the search has climbed from the deepest directory to the root and ended
C30_Witness ==
    /\ cwd = Chain /\ search_recursive /\ Relative
    /\ pc = "raised" /\ current_dir = << >>
    /\ \E i \in 1..Len(probes) : probes[i] = Probe("recursive", LocalCandidate)
    /\ LastProbe = Probe("recursive", JoinPath(<<Chain[1]>>, PathOf(InitialPath)))

\* ====================================================== Pipeline inputs
\* the Pipeline method has called the driver's method
DriverCalled == entry_point # "none"

EntryPoints == {"execute", "export_execution", "validate_execution", "visualize_execution"}

\* C29: whichever entry point is called, the driver receives None when the
\* caller's inputs are None or empty, and otherwise a mapping holding exactly
\* the caller's keys that are no keys of driver.config, each with the
\* caller's value; and the caller's mapping is never changed.
C29_DriverReceivesInputsOutsideConfig ==
    /\ [](DriverCalled =>
            /\ entry_point \in EntryPoints
            /\ driver_inputs.called
            /\ IF ~raw_inputs.some \/ raw_inputs.items = << >>
               THEN driver_inputs.inputs = NoDict
               ELSE /\ driver_inputs.inputs.some
                    /\ \A k \in DOMAIN driver_config :
                          k \notin DOMAIN driver_inputs.inputs.items
                    /\ \A k \in (DOMAIN raw_inputs.items) \ (DOMAIN driver_config) :
                          /\ k \in DOMAIN driver_inputs.inputs.items
                          /\ driver_inputs.inputs.items[k] = raw_inputs.items[k]
                    /\ DOMAIN driver_inputs.inputs.items \subseteq DOMAIN raw_inputs.items)
    /\ [][raw_inputs' = raw_inputs /\ driver_config' = driver_config]_vars

\* numbers, method and factor were given to a driver configured with method
\* and factor, of other values: the driver has received numbers alone
C29_Witness ==
    /\ DriverCalled
    /\ raw_inputs.some /\ DOMAIN raw_inputs.items = {"numbers", "method", "factor"}
    /\ DOMAIN driver_config = {"method", "factor"}
    /\ driver_config["method"] # raw_inputs.items["method"]
    /\ driver_inputs.inputs = Dict([k \in {"numbers"} |-> raw_inputs.items["numbers"]])

\* ====================================================== the context's cache
\* the step is a call of AppContext.load_config
IsLoad == loads' = loads + 1

Cached == context.cached_config # VNull

\* C27: once a call of AppContext.load_config has returned a configuration,
\* every later call on the context returns that configuration without calling
\* the composer, whatever params it is given; a call in which the composer
\* raises leaves the cache empty, and the next call calls the composer again
\* with its own params.  The cache holds what the last successful call
\* returned, an empty configuration included.
C27_ContextMemoizesFirstConfig ==
    [][IsLoad =>
         /\ Cached =>
               /\ last' = Loaded(NoError, context.cached_config)
               /\ composer_calls' = composer_calls
               /\ context' = context
         /\ ~Cached =>
               /\ Len(composer_calls') = Len(composer_calls) + 1
               /\ (last'.raised # NoError) => context' = context
               /\ (last'.raised = NoError) =>
                     /\ last'.value \in Configs
                     /\ context'.cached_config = last'.value]_vars

\* the composer raised, was called again and returned {}, and a third call
\* has returned {} without a third call of the composer
C27_Witness ==
    /\ loads = 3 /\ Len(composer_calls) = 2
    /\ composer_calls[1].params # composer_calls[2].params
    /\ context.cached_config = EmptyMap
    /\ last = Loaded(NoError, EmptyMap)


\* ------------------------------------------------------------------- C23
\* the command line came through the group build_cli returns and has ended
ThroughGroup == argv.via = "group" /\ cli_pc = "exit"

HasCall(op) == \E i \in 1..Len(log) : log[i].op = op

\* C23: the command line forwards the key=value strings unmodified, with the
\* configured location and the two search flags, from the main group through
\* AppContext.load_config to the composer's load_config, and the command goes
\* on with the configuration composed; `run simple_pipeline numbers=[2,3,4]`
\* with no configuration source reaches execute and, execute returning, ends
\* with exit code 0.
C23_CliForwardsParamsToComposer ==
    ThroughGroup =>
        /\ Len(composer_calls) = 1
        /\ composer_calls[1].params = argv.params
        /\ composer_calls[1].name = argv.config_file
        /\ composer_calls[1].search_git_root = argv.search_git_root
        /\ composer_calls[1].search_recursive = argv.search_recursive
        /\ cli_raised.type # "TypeError"
        /\ ( /\ argv.command = "run"
             /\ argv.pipeline_name = "simple_pipeline"
             /\ argv.params = <<"numbers=[2,3,4]">>
             /\ argv.config_file = None
             /\ "simple_pipeline" \in DOMAIN project
             /\ cli_raised = NoError )
           => (HasCall("execute") /\ exit_code = 0)

\* ------------------------------------------------------------------- C24
\* the calls the run command has made are the first calls of
\* load_config(params), find_pipelines(config), execute(inputs=config)
RunSteps ==
    <<Call("load_config", argv.params, "", VNull, NoPipelines.pipelines),
      Call("find_pipelines", << >>, "", config_local, NoPipelines.pipelines),
      Call("execute", << >>, argv.pipeline_name, config_local, NoPipelines.pipelines)>>

IsPrefix(s, t) == Len(s) <= Len(t) /\ \A i \in 1..Len(s) : s[i] = t[i]

Runnable(pipelines, name) == name \in DOMAIN pipelines /\ pipelines[name].public

ShellSteps ==
    <<Call("load_config", argv.params, "", VNull, NoPipelines.pipelines),
      Call("find_pipelines", << >>, "", config_local, NoPipelines.pipelines),
      Call("launch_shell", << >>, "", config_local, pipelines_local.pipelines)>>

\* C25: the calls of the shell command are, each at most once and in this
\* order, load_config(params), find_pipelines of exactly the configuration
\* load_config returned, and launch_shell of that configuration and the
\* pipelines found; after a failure of load_config neither of the others is
\* called, after a failure of find_pipelines launch_shell is not called, and
\* every failure ends the command with a non-zero exit code.
C25_ShellStepsInOrder ==
    (argv.command = "shell") =>
        /\ IsPrefix(log, ShellSteps)
        /\ (Len(log) >= 2) => config_local = last.value
        /\ (Len(log) >= 3) => pipelines_local = Found(project)
        /\ (last.raised # NoError) => (Len(log) = 1 /\ cli_pc = "exit")
        /\ (cli_raised = Failure("find_pipelines")) => Len(log) = 2
        /\ (cli_pc = "exit") => (exit_code = 0 <=> cli_raised = NoError)
        /\ (cli_pc = "exit" /\ cli_raised = NoError) => Len(log) = 3

\* find_pipelines has failed after load_config returned a configuration: the
\* shell was not launched and the exit code is 1
C25_Witness ==
    /\ argv.command = "shell" /\ cli_pc = "exit"
    /\ cli_raised = Failure("find_pipelines")
    /\ last.raised = NoError /\ last.value # VNull
    /\ Len(log) = 2
    /\ exit_code = 1

====
